---- MODULE Spec2Model ----
(***************************************************************************)
(* A model of loco's Agent Execution Core: the Rewind Manager and its      *)
(* Snapshot Store (rewind.py, snapshots.py), the Turn Driver (chat.py),    *)
(* and the MCP client and server (mcp/client.py, mcp/server.py).           *)
(***************************************************************************)
EXTENDS Integers, Sequences, FiniteSets, TLC

VARIABLES
    \* ---- the file system and the Rewind Manager (rewind.py) ----
    disk,                   \* path -> content of the file, or Absent
    turn_in_progress,       \* RewindManager._turn_in_progress
    current_turn_changes,   \* RewindManager._current_turn_changes (insertion order)
    current_turn,           \* RewindState.current_turn
    checkpoints,            \* RewindState.checkpoints
    originals,              \* RewindState.originals
    \* ---- what the last Rewind Manager call returned ----
    ret,
    \* ---- history of the session, for the statements only ----
    pristine,               \* only completed turns with paired captures so far
    unsynced,               \* paths captured or written since their last capture_after
    snap,                   \* snap[k+1]: the disk at the end of turn k
    \* ---- the Turn Driver (chat.py) ----
    messages,               \* Conversation.messages
    chat_pc,                \* where chat_turn stands
    attempt,                \* stream_response's retry counter
    slept,                  \* the delays stream_response slept for this request, in seconds
    content_chunks,         \* whether the stream has yielded text
    tool_calls,             \* chat_turn's tool_calls of this LLM call
    tc_index,               \* the position of the dispatch loop in tool_calls
    \* ---- the MCP client (mcp/client.py) and its transport ----
    cl_initialized,         \* MCPClient._initialized
    cl_request_id,          \* MCPClient._request_id
    cl_pending,             \* MCPClient._pending_requests: id -> future
    cl_receive,             \* the state of the _receive_loop task
    cl_closed,              \* the transport's _closed
    cl_task,                \* the calls in progress: caller -> where it stands
    cl_wire,                \* what the client has written to the transport
    cl_log,                 \* per request: what was received for it and how it ended
    \* ---- the MCP server (mcp/server.py) ----
    sv_initialized,         \* MCPServer._initialized
    sv_running,             \* run() is in its receive loop
    sv_sent,                \* the responses run() has sent, in order
    sv_arrived,             \* the ids of the messages run() has received, in order
    \* ---- the Tool Registry (tools/base.py) and a sub-agent run (agents.py) ----
    tr_tools,               \* ToolRegistry._tools: the registered names, in order
    tr_calls,               \* the calls of ToolRegistry.execute and how each ended
    ag_effective,           \* run_agent's allowed_tools, <<None>> outside a run
    ag_results,             \* the tool results the sub-agent's Conversation got
    \* ---- a RewindManager with its SnapshotStorage (rewind.py, snapshots.py) ----
    sm_alive,               \* the process holds a manager for the session
    sm_turn_in_progress,    \* RewindManager._turn_in_progress
    sm_changes,             \* RewindManager._current_turn_changes (insertion order)
    sm_current_turn,        \* RewindState.current_turn
    sm_checkpoints,         \* RewindState.checkpoints
    sm_originals,           \* RewindState.originals
    sm_saving,              \* where end_turn's save_turn stands
    fs_rewind,              \* rewind.json: <<>> when missing
    fs_meta,                \* originals/{hash}.meta: its "existed" as JSON, Absent when missing
    fs_originals,           \* originals/{hash}.snapshot
    fs_manifest,            \* turns/turn-NNN/manifest.json: <<>> when missing
    fs_snapshots,           \* turns/turn-NNN/{hash}.snapshot
    \* ---- history of the stored session, for the statements only ----
    st_shown,               \* what a load of the session showed when the turn began
    st_lost,                \* the number of the turn a stop of the process cut short
    \* ---- a stdio or child-pipe transport's receive() (mcp/transport.py) ----
    tp_lines,               \* the lines written to the channel and not yet read
    tp_read,                \* the lines receive() has read, in order
    tp_yielded,             \* the messages receive() has yielded, in order
    tp_receive,             \* receive(): "running", or why it returned
    \* ---- the built-in tools edit, write and bash (tools/) ----
    bt_file,                \* the file at the path the tools are called with
    bt_result,              \* the last call of a built-in tool, the file before it,
                            \* and what it returned; none once the file changed otherwise
    \* ---- one LLM call of stream_response (chat.py) ----
    sr_pc,                  \* stream_response: "streaming", "yielding", "returned", "raised"
    sr_chunks,              \* the chunks of the stream read so far
    sr_content,             \* content_chunks: the text deltas kept
    sr_data,                \* tool_calls_data: its values, in the order of insertion
    sr_next,                \* how many entries of tool_calls_data have been yielded
    sr_trace,                \* what stream_response did that shows outside, in order
    \* ---- a ProcessTransport under a client (mcp/transport.py, mcp/client.py) ----
    pt_process,             \* _process: 0 for None, or the number of a child
    pt_children,            \* the children spawned, in order: "running" or "exited"
    pt_task,                \* where each task using the transport stands, and the id it sends
    pt_request_id,          \* the client's _request_id
    pt_written,             \* the requests written, in order, each with the child written to
    pt_read,                \* the children receive() has read from
    pt_closed,              \* _closed
    pt_close,               \* close(): where it stands and the child it waits for
    pt_signals              \* terminate and kill as sent, with the child and its state then

rewindVars == <<disk, turn_in_progress, current_turn_changes, current_turn,
                checkpoints, originals, ret, pristine, unsynced, snap>>

chatVars == <<messages, chat_pc, attempt, slept, content_chunks, tool_calls, tc_index>>

clientVars == <<cl_initialized, cl_request_id, cl_pending, cl_receive, cl_closed,
                cl_task, cl_wire, cl_log>>

serverVars == <<sv_initialized, sv_running, sv_sent, sv_arrived>>

toolVars == <<tr_tools, tr_calls, ag_effective, ag_results>>

storageVars == <<sm_alive, sm_turn_in_progress, sm_changes, sm_current_turn,
                 sm_checkpoints, sm_originals, sm_saving, fs_rewind, fs_meta,
                 fs_originals, fs_manifest, fs_snapshots, st_shown, st_lost>>

transportVars == <<tp_lines, tp_read, tp_yielded, tp_receive>>

builtinVars == <<bt_file, bt_result>>

streamVars == <<sr_pc, sr_chunks, sr_content, sr_data, sr_next, sr_trace>>

processVars == <<pt_process, pt_children, pt_task, pt_request_id, pt_written, pt_read, pt_closed, pt_close, pt_signals>>

vars == <<rewindVars, chatVars, clientVars, serverVars, toolVars, storageVars,
          transportVars, builtinVars, streamVars, processVars>>

\* what the Rewind Manager's operations leave alone
notRewindVars == <<chatVars, clientVars, serverVars, toolVars, storageVars,
    transportVars, builtinVars, streamVars, processVars>>

\* what the Turn Driver's steps leave alone
notChatVars == <<rewindVars, clientVars, serverVars, toolVars, storageVars,
    transportVars, builtinVars, streamVars, processVars>>

\* what the MCP client's steps leave alone
notClientVars == <<rewindVars, chatVars, serverVars, toolVars, storageVars,
    transportVars, builtinVars, streamVars, processVars>>

\* what the MCP server's steps leave alone
notServerVars == <<rewindVars, chatVars, clientVars, toolVars, storageVars,
    transportVars, builtinVars, streamVars, processVars>>

\* what the Tool Registry and the sub-agent leave alone
notToolVars == <<rewindVars, chatVars, clientVars, serverVars, storageVars,
    transportVars, builtinVars, streamVars, processVars>>

\* what the transport's receive() leaves alone
notTransportVars == <<rewindVars, chatVars, clientVars, serverVars, toolVars,
                      storageVars, builtinVars, streamVars, processVars>>

\* what the built-in tools leave alone
notBuiltinVars == <<rewindVars, chatVars, clientVars, serverVars, toolVars,
                    storageVars, transportVars, streamVars, processVars>>

\* what the steps of one LLM call leave alone
notStreamVars == <<rewindVars, chatVars, clientVars, serverVars, toolVars,
    storageVars, transportVars, builtinVars, processVars>>

\* what the tasks on a ProcessTransport leave alone
notProcessVars == <<rewindVars, chatVars, clientVars, serverVars, toolVars,
    storageVars, transportVars, builtinVars, streamVars>>

\* what the stored session's steps leave alone
notStorageVars == <<rewindVars, chatVars, clientVars, serverVars, toolVars,
    transportVars, builtinVars, streamVars, processVars>>

\* ------------------------------------------------------------------------
\* Bounds
\* ------------------------------------------------------------------------
MaxTurns == 2
MaxMessages == 6        \* messages a Conversation holds before new work is refused
MaxToolCalls == 2       \* tool calls one assistant message carries
MaxRequests == 3        \* requests an MCP client creates
MaxResponses == 3       \* responses an MCP server sends
MaxDispatches == 2      \* tool calls dispatched to the registry, and by a sub-agent
MaxLines == 4           \* lines a peer writes to a transport's channel
MaxChars == 3           \* characters of a file the built-in tools work on
MaxChunks == 3          \* chunks of one LLM call's stream
MaxSends == 3           \* requests the callers of a ProcessTransport's client send

\* ------------------------------------------------------------------------
\* Values
\* ------------------------------------------------------------------------
None == "None"                    \* Python's None
Absent == "absent"                \* the path does not exist on disk
Big == "BIG"                      \* a content read_file_safe cannot return
Texts == {"a"}                    \* contents that can be read back
Contents == Texts \cup {Big}
Paths == {"p"}                    \* canonical absolute paths
PathArgs == Paths \cup {"./p"}    \* paths as callers spell them

CREATED == "created"
MODIFIED == "modified"
DELETED == "deleted"
ChangeType == {CREATED, MODIFIED, DELETED}

EmptyMap == [x \in {} |-> None]

Put(f, k, v) == [x \in (DOMAIN f) \cup {k} |-> IF x = k THEN v ELSE f[x]]

Max(S) == IF S = {} THEN 0 ELSE CHOOSE x \in S : \A y \in S : y <= x

\* Path(path).resolve(): the canonical path of a spelling
Resolve(path) == IF path = "./p" THEN "p" ELSE path

\* read_file_safe: None when the file is missing, too large or not UTF-8
read_file_safe(path) ==
    IF disk[path] = Absent THEN None
    ELSE IF disk[path] = Big THEN None
    ELSE disk[path]

\* The content a tool hands to capture_after: what it wrote, None if deleted
Written(path) == IF disk[path] = Absent THEN None ELSE disk[path]

FileChange(path, ct, before, after) ==
    [path |-> path, change_type |-> ct,
     content_before |-> before, content_after |-> after]

\* the position of path's entry in a list of changes, 0 when it has none
IndexOf(changes, path) ==
    IF \E i \in 1..Len(changes) : changes[i].path = path
    THEN CHOOSE i \in 1..Len(changes) : changes[i].path = path
    ELSE 0

RECURSIVE Concat(_)
Concat(ss) == IF ss = <<>> THEN <<>> ELSE Head(ss) \o Concat(Tail(ss))

RECURSIVE SelectSeqBy(_, _)
\* the subsequence of s at the positions in keep
SelectSeqBy(s, keep) ==
    IF s = <<>> THEN <<>>
    ELSE IF Len(s) \in keep
         THEN Append(SelectSeqBy(SubSeq(s, 1, Len(s) - 1), keep), s[Len(s)])
         ELSE SelectSeqBy(SubSeq(s, 1, Len(s) - 1), keep)

Idle == [op |-> "none"]

\* ------------------------------------------------------------------------
\* Rewind Manager (rewind.py)
\* ------------------------------------------------------------------------
TypeOK ==
    /\ disk \in [Paths -> Contents \cup {Absent}]
    /\ turn_in_progress \in BOOLEAN
    /\ current_turn \in 0..MaxTurns
    /\ pristine \in BOOLEAN
    /\ unsynced \subseteq Paths

InitRewind ==
    /\ disk \in [Paths -> Contents \cup {Absent}]
    /\ turn_in_progress = FALSE
    /\ current_turn_changes = <<>>
    /\ current_turn = 0
    /\ checkpoints = <<>>
    /\ originals = EmptyMap
    /\ ret = Idle
    /\ pristine = TRUE
    /\ unsynced = {}
    /\ snap = <<disk>>

\* the history kept for the statements: dropped once the session is not pristine
History(ok, s, u) ==
    /\ pristine' = ok
    /\ snap' = IF ok THEN s ELSE <<>>
    /\ unsynced' = IF ok THEN u ELSE {}

\* A file is written, created or deleted: by a tool of the turn, or by
\* anything else (the operator, another program).
file_write(path, content) ==
    /\ content # disk[path]
    /\ disk' = [disk EXCEPT ![path] = content]
    /\ LET wrapped == turn_in_progress /\ IndexOf(current_turn_changes, path) # 0
       IN  History(pristine /\ wrapped, snap, unsynced \cup {path})
    /\ ret' = Idle
    /\ UNCHANGED <<turn_in_progress, current_turn_changes, current_turn,
                   checkpoints, originals>>
    /\ UNCHANGED notRewindVars

begin_turn ==
    /\ turn_in_progress' = TRUE
    /\ current_turn_changes' = <<>>
    /\ History(pristine /\ ~turn_in_progress, snap, {})
    /\ ret' = Idle
    /\ UNCHANGED <<disk, current_turn, checkpoints, originals>>
    /\ UNCHANGED notRewindVars

FirstTouch_always(path) == TRUE

\* "if path not in self.state.originals": the session has not touched the path
FirstTouch(path) == path \notin DOMAIN originals

capture_before(arg) ==
    LET path == Resolve(arg)
        content == read_file_safe(path)
    IN  /\ turn_in_progress
        /\ IndexOf(current_turn_changes, path) = 0
        /\ IF FirstTouch(path)
           THEN originals' = Put(originals, path, content)
           ELSE UNCHANGED originals
        /\ current_turn_changes' =
               Append(current_turn_changes,
                      FileChange(path, IF content = None THEN CREATED ELSE MODIFIED,
                                 content, None))
        /\ ret' = Idle
        /\ History(pristine, snap, unsynced \cup {path})
        /\ UNCHANGED <<disk, turn_in_progress, current_turn, checkpoints>>
        /\ UNCHANGED notRewindVars

\* capture_after(path, content, change_type), content being what the tool wrote
capture_after(arg, change_type) ==
    LET path == Resolve(arg)
        content == Written(path)
        known == IndexOf(current_turn_changes, path) # 0
        entries == IF known THEN current_turn_changes
                   ELSE Append(current_turn_changes,
                               FileChange(path, MODIFIED,
                                          IF path \in DOMAIN originals
                                          THEN originals[path] ELSE None,
                                          None))
        i == IndexOf(entries, path)
        ct == IF change_type # None THEN change_type
              ELSE IF content = None THEN DELETED
              ELSE IF entries[i].content_before = None THEN CREATED
              ELSE MODIFIED
    IN  /\ turn_in_progress
        /\ current_turn_changes' =
               [entries EXCEPT ![i] = FileChange(path, ct, entries[i].content_before,
                                                 content)]
        /\ History(pristine /\ known, snap, unsynced \ {path})
        /\ ret' = Idle
        /\ UNCHANGED <<disk, turn_in_progress, current_turn, checkpoints,
                       originals>>
        /\ UNCHANGED notRewindVars

end_turn(message_index) ==
    LET checkpoint == [turn_number |-> current_turn + 1,
                       message_index |-> message_index,
                       file_changes |-> current_turn_changes]
    IN  /\ current_turn < MaxTurns
        /\ current_turn' = current_turn + 1
        /\ checkpoints' = Append(checkpoints, checkpoint)
        /\ turn_in_progress' = FALSE
        /\ current_turn_changes' = <<>>
        /\ History(pristine /\ turn_in_progress /\ unsynced = {},
                   Append(snap, disk), {})
        /\ ret' = Idle
        /\ UNCHANGED <<disk, originals>>
        /\ UNCHANGED notRewindVars

get_files_modified_after_turn(turn_number) ==
    Concat([i \in 1..Len(checkpoints) |->
              IF checkpoints[i].turn_number > turn_number
              THEN checkpoints[i].file_changes ELSE <<>>])

Conflict(path, expected, actual) ==
    [path |-> path, expected_content |-> expected, actual_content |-> actual]

validate_before_rewind(target_turn) ==
    LET changes == get_files_modified_after_turn(target_turn)
        bad == {i \in 1..Len(changes) :
                  read_file_safe(changes[i].path) # changes[i].content_after}
        hits == SelectSeqBy(changes, bad)
    IN  [i \in 1..Len(hits) |->
           Conflict(hits[i].path, hits[i].content_after, read_file_safe(hits[i].path))]

\* file_restore_map: each path's content_before at its first change after the turn
file_restore_map(turn_number) ==
    LET changes == get_files_modified_after_turn(turn_number)
        paths == {changes[i].path : i \in 1..Len(changes)}
    IN  [x \in paths |-> changes[IndexOf(changes, x)].content_before]

\* (success, restored_files, conflicts); errors: the "Error restoring" entries
RewindRet(ok, restored, conflicts, errors) ==
    [op |-> "rewind_to_turn", ok |-> ok,
     restored |-> restored, conflicts |-> conflicts, errors |-> errors]

\* "if conflicts and not force": the rewind is refused
Refused_never(conflicts, force) == FALSE

Refused(conflicts, force) == conflicts # <<>> /\ ~force

PruneCheckpoints_keeps_all(turn_number) == checkpoints

\* the checkpoints a rewind keeps: those with turn_number <= turn_number
PruneCheckpoints(turn_number) ==
    SelectSeqBy(checkpoints,
                {i \in 1..Len(checkpoints) : checkpoints[i].turn_number <= turn_number})

rewind_to_turn(turn_number, force) ==
    LET conflicts == validate_before_rewind(turn_number)
        restore == file_restore_map(turn_number)
    IN  /\ UNCHANGED notRewindVars
        /\ IF turn_number < 0 \/ turn_number > current_turn
           THEN /\ ret' = RewindRet(FALSE, {}, <<>>, {})
                /\ UNCHANGED <<disk, turn_in_progress, current_turn_changes,
                               current_turn, checkpoints, originals, pristine,
                               unsynced, snap>>
           ELSE IF Refused(conflicts, force)
           THEN /\ ret' = RewindRet(FALSE, {}, conflicts, {})
                /\ UNCHANGED <<disk, turn_in_progress, current_turn_changes,
                               current_turn, checkpoints, originals, pristine,
                               unsynced, snap>>
           ELSE \E failing \in SUBSET (DOMAIN restore) :
                \* failing: the paths whose restoration raises OSError
                /\ disk' = [x \in Paths |->
                              IF x \in DOMAIN restore /\ x \notin failing
                              THEN IF restore[x] = None THEN Absent ELSE restore[x]
                              ELSE disk[x]]
                /\ checkpoints' = PruneCheckpoints(turn_number)
                /\ current_turn' = turn_number
                /\ ret' = RewindRet(TRUE,
                                    {x \in DOMAIN restore :
                                       x \notin failing
                                       /\ (restore[x] = None => disk[x] # Absent)},
                                    conflicts, failing)
                /\ History(pristine /\ failing = {} /\ ~turn_in_progress,
                           SubSeq(snap, 1, turn_number + 1), unsynced)
                /\ UNCHANGED <<turn_in_progress, current_turn_changes, originals>>

rewind_conversation_only(turn_number) ==
    /\ UNCHANGED notRewindVars
    /\ IF turn_number < 0 \/ turn_number > current_turn
       THEN /\ ret' = [op |-> "rewind_conversation_only", ok |-> FALSE]
            /\ UNCHANGED <<disk, turn_in_progress, current_turn_changes,
                           current_turn, checkpoints, originals, pristine,
                           unsynced, snap>>
       ELSE /\ checkpoints' = PruneCheckpoints(turn_number)
            /\ current_turn' = turn_number
            /\ ret' = [op |-> "rewind_conversation_only", ok |-> TRUE]
            /\ History(FALSE, snap, unsynced)
            /\ UNCHANGED <<disk, turn_in_progress, current_turn_changes, originals>>

\* turn numbers as callers pass them: those in range and one beyond each end
TurnArgs == -1..(current_turn + 1)

NextRewind ==
    \/ \E path \in Paths, content \in Contents \cup {Absent} : file_write(path, content)
    \/ begin_turn
    \/ \E arg \in PathArgs : capture_before(arg)
    \/ \E arg \in PathArgs, ct \in {None} : capture_after(arg, ct)
    \/ \E mi \in {1} : end_turn(mi)
    \/ \E n \in TurnArgs, force \in BOOLEAN : rewind_to_turn(n, force)
    \/ \E n \in TurnArgs : rewind_conversation_only(n)

\* ------------------------------------------------------------------------
\* Turn Driver (chat.py)
\* ------------------------------------------------------------------------
MAX_RETRIES == 3

\* seconds
RETRY_DELAY == 1

RETRY_BACKOFF == 2

RECURSIVE Pow(_, _)
Pow(base, exponent) == IF exponent = 0 THEN 1 ELSE base * Pow(base, exponent - 1)

ToolCallIds == {"t1", "t2"}

\* the tool calls one LLM reply can carry: their ids, in the order of the calls
ToolCallLists ==
    UNION {[1..n -> ToolCallIds] : n \in 0..MaxToolCalls}

Message(role, content, calls, id) ==
    [role |-> role, content |-> content, tool_calls |-> calls, tool_call_id |-> id]

add_user_message(content) == Append(messages, Message("user", content, <<>>, None))

add_assistant_message(content, calls) ==
    Append(messages, Message("assistant", content, calls, None))

add_tool_result(tool_call_id, result) ==
    Append(messages, Message("tool", result, <<>>, tool_call_id))

InitChat ==
    /\ messages = <<>>
    /\ chat_pc = "idle"
    /\ attempt = 0
    /\ slept = <<>>
    /\ content_chunks = FALSE
    /\ tool_calls = <<>>
    /\ tc_index = 0

\* chat_turn is entered: the user message is appended, the loop begins
chat_turn(user_input) ==
    /\ chat_pc \in {"idle", "returned", "raised"}
    /\ Len(messages) + 2 <= MaxMessages
    /\ messages' = add_user_message(user_input)
    /\ chat_pc' = "completion"
    /\ attempt' = 0
    /\ slept' = <<>>
    /\ content_chunks' = FALSE
    /\ tool_calls' = <<>>
    /\ tc_index' = 0
    /\ UNCHANGED notChatVars

Retried(n) == n < MAX_RETRIES - 1

\* one pass of stream_response's retry loop: litellm.completion returns the
\* stream, or fails with a rate-limit, service-unavailable or connection error
\* ("retryable": sleep and go round again, or APIError on the last pass), or
\* fails with anything else (which no except clause of the loop catches)
completion(outcome) ==
    /\ chat_pc = "completion"
    /\ CASE outcome = "ok" ->
              /\ chat_pc' = "streaming"
              /\ UNCHANGED <<attempt, slept>>
         [] outcome = "retryable" /\ Retried(attempt) ->
              /\ slept' = Append(slept, RETRY_DELAY * Pow(RETRY_BACKOFF, attempt))
              /\ attempt' = attempt + 1
              /\ UNCHANGED chat_pc
         [] OTHER ->
              \* APIError on the last pass, or an error that is not retried
              /\ chat_pc' = "raised"
              /\ UNCHANGED <<attempt, slept>>
    /\ UNCHANGED <<messages, content_chunks, tool_calls, tc_index>>
    /\ UNCHANGED notChatVars

\* the stream yields a text delta
stream_delta ==
    /\ chat_pc = "streaming"
    /\ ~content_chunks
    /\ content_chunks' = TRUE
    /\ UNCHANGED <<messages, chat_pc, attempt, slept, tool_calls, tc_index>>
    /\ UNCHANGED notChatVars

\* the stream raises while it is read: nothing has been appended
stream_raises ==
    /\ chat_pc = "streaming"
    /\ chat_pc' = "raised"
    /\ UNCHANGED <<messages, attempt, slept, content_chunks, tool_calls, tc_index>>
    /\ UNCHANGED notChatVars

\* the stream is exhausted: stream_response appends the assistant message and
\* yields the tool calls, chat_turn returns when there are none
stream_end(calls) ==
    /\ chat_pc = "streaming"
    /\ calls # <<>> => Len(messages) + 2 + Len(calls) <= MaxMessages
    /\ messages' = IF content_chunks \/ calls # <<>>
                   THEN add_assistant_message(IF content_chunks THEN "text" ELSE None,
                                              calls)
                   ELSE messages
    /\ tool_calls' = calls
    /\ IF calls = <<>>
       THEN chat_pc' = "returned" /\ tc_index' = 0
       ELSE chat_pc' = "tools" /\ tc_index' = 1
    /\ UNCHANGED <<attempt, slept, content_chunks>>
    /\ UNCHANGED notChatVars

\* one round of the dispatch loop: the hook check, tool_executor, and
\* add_tool_result; after the last call the loop asks the LLM again
execute_tool(outcome) ==
    /\ chat_pc = "tools"
    /\ messages' = add_tool_result(tool_calls[tc_index],
                                   CASE outcome = "blocked" -> "[Hook blocked]"
                                     [] outcome = "error" -> "Error"
                                     [] OTHER -> "result")
    /\ IF tc_index < Len(tool_calls)
       THEN /\ tc_index' = tc_index + 1
            /\ UNCHANGED <<chat_pc, attempt, slept, content_chunks, tool_calls>>
       ELSE /\ chat_pc' = "completion"
            /\ attempt' = 0
            /\ slept' = <<>>
            /\ content_chunks' = FALSE
            /\ tool_calls' = <<>>
            /\ tc_index' = 0
    /\ UNCHANGED notChatVars

\* the operator interrupts: KeyboardInterrupt is raised where chat_turn stands
\* and no handler of chat_turn or stream_response catches it
interrupt ==
    /\ chat_pc \in {"completion", "streaming", "tools"}
    /\ chat_pc' = "raised"
    /\ UNCHANGED <<messages, attempt, slept, content_chunks, tool_calls, tc_index>>
    /\ UNCHANGED notChatVars

NextChat ==
    \/ \E user_input \in {"text"} : chat_turn(user_input)
    \/ \E outcome \in {"ok", "retryable", "other"} : completion(outcome)
    \/ stream_delta
    \/ stream_raises
    \/ \E calls \in ToolCallLists : stream_end(calls)
    \/ \E outcome \in {"ok", "error", "blocked"} : execute_tool(outcome)
    \/ interrupt

\* ------------------------------------------------------------------------
\* MCP client (mcp/client.py) over a transport (mcp/transport.py)
\* ------------------------------------------------------------------------
Callers == {"c1", "c2"}             \* the tasks that call the client
Apis == {"initialize", "list_tools", "call_tool"}
RequestIds == 1..MaxRequests

\* the messages the transport can deliver: an id, and a result or an error
Replies == [id : RequestIds, kind : {"result", "error"}]

\* the JSON-RPC method a call sends once the client is initialized
MethodOf(api) ==
    CASE api = "list_tools" -> "tools/list"
      [] api = "call_tool" -> "tools/call"
      [] OTHER -> "initialize"

Future(state, value) == [state |-> state, value |-> value]

TaskIdle(last) == [pc |-> "idle", api |-> None, req |-> 0, last |-> last]

TaskWaiting(pc, api, req) == [pc |-> pc, api |-> api, req |-> req, last |-> None]

NoLog == [method |-> None, sent |-> FALSE, first |-> <<>>, resolved |-> <<>>,
          outcome |-> <<>>]

Remove(f, k) == [x \in (DOMAIN f) \ {k} |-> f[x]]

InitClient ==
    /\ cl_initialized = FALSE
    /\ cl_request_id = 0
    /\ cl_pending = [x \in {} |-> None]
    /\ cl_receive = "none"
    /\ cl_closed = FALSE
    /\ cl_task = [c \in Callers |-> TaskIdle(None)]
    /\ cl_wire = <<>>
    /\ cl_log = [id \in RequestIds |-> NoLog]

\* _send_request up to its await of the future: the id is taken, the future
\* registered, the request written; a send that raises leaves the caller with
\* the error.  log: the request log to extend.
SendRequest(c, api, method, waiting, send_ok, log) ==
    LET request_id == cl_request_id + 1
        written == send_ok /\ ~cl_closed
    IN  /\ request_id <= MaxRequests
        /\ cl_request_id' = request_id
        /\ cl_pending' = Put(cl_pending, request_id, Future("pending", None))
        /\ cl_wire' = IF written
                      THEN Append(cl_wire, [id |-> request_id, method |-> method])
                      ELSE cl_wire
        /\ cl_task' = [cl_task EXCEPT ![c] =
                          IF written THEN TaskWaiting(waiting, api, request_id)
                          ELSE TaskIdle("raised")]
        /\ cl_log' = [log EXCEPT ![request_id] =
                         [NoLog EXCEPT !.method = method, !.sent = written,
                                       !.outcome = IF written THEN <<>>
                                                   ELSE <<[kind |-> "send_error"]>>]]

\* "if not self._initialized": the call runs initialize first
NeedsInitialize_never == FALSE

NeedsInitialize == ~cl_initialized

\* initialize, list_tools or call_tool is called, up to its first await
call(c, api, send_ok) ==
    /\ cl_task[c].pc = "idle"
    /\ IF api = "initialize" /\ cl_initialized
       THEN \* initialize returns {} at once
            /\ cl_task[c].last # "returned"
            /\ cl_task' = [cl_task EXCEPT ![c] = TaskIdle("returned")]
            /\ UNCHANGED <<cl_initialized, cl_request_id, cl_pending, cl_receive,
                           cl_closed, cl_wire, cl_log>>
       ELSE IF api = "initialize" \/ NeedsInitialize
       THEN \* initialize: the receive loop is started, the request sent
            /\ cl_receive' = "running"
            /\ SendRequest(c, api, "initialize", "init_wait", send_ok, cl_log)
            /\ UNCHANGED <<cl_initialized, cl_closed>>
       ELSE /\ SendRequest(c, api, MethodOf(api), "call_wait", send_ok, cl_log)
            /\ UNCHANGED <<cl_initialized, cl_receive, cl_closed>>
    /\ UNCHANGED notClientVars

\* "if future and not future.done()": the message resolves the future
Deliverable_always(future) == TRUE

Deliverable(future) == future.state = "pending"

\* the receive loop takes one message off the transport
receive_message(message) ==
    LET request_id == message.id
        log == cl_log[request_id]
    IN  /\ cl_receive = "running"
        /\ ~cl_closed
        /\ IF request_id \in DOMAIN cl_pending
           THEN LET future == cl_pending[request_id]
                    first == IF log.first = <<>> THEN <<message>> ELSE log.first
                IN  IF Deliverable(future)
                    THEN /\ cl_pending' = [cl_pending EXCEPT ![request_id] =
                                              Future("result", message)]
                         /\ cl_log' = [cl_log EXCEPT ![request_id] =
                                          [log EXCEPT !.first = first,
                                                      !.resolved = Append(@, message)]]
                    ELSE /\ cl_log' = [cl_log EXCEPT ![request_id].first = first]
                         /\ UNCHANGED cl_pending
           ELSE UNCHANGED <<cl_pending, cl_log>>
        /\ UNCHANGED <<cl_initialized, cl_request_id, cl_receive, cl_closed,
                       cl_task, cl_wire>>
        /\ UNCHANGED notClientVars

\* an exception reaches _receive_loop's handler (receive() raises before its
\* loop, or a message that is no JSON object breaks the id lookup): every
\* future that is not done gets the exception
receive_raises ==
    /\ cl_receive = "running"
    /\ cl_receive' = "failed"
    /\ cl_pending' = [id \in DOMAIN cl_pending |->
                         IF cl_pending[id].state = "pending"
                         THEN Future("exception", None) ELSE cl_pending[id]]
    /\ UNCHANGED <<cl_initialized, cl_request_id, cl_closed, cl_task, cl_wire, cl_log>>
    /\ UNCHANGED notClientVars

\* the transport's receive() stops yielding: end of file (the child exited
\* or closed its stdout), or a read or decode error, which receive() catches
\* itself before it breaks out of its loop
stream_ends(cause) ==
    /\ cl_receive = "running"
    /\ cl_receive' = cause
    /\ UNCHANGED <<cl_initialized, cl_request_id, cl_pending, cl_closed, cl_task,
                   cl_wire, cl_log>>
    /\ UNCHANGED notClientVars

\* MCPClient.close: the receive task is cancelled, the transport closed
close ==
    /\ ~cl_closed
    /\ cl_closed' = TRUE
    /\ cl_receive' = IF cl_receive = "running" THEN "cancelled" ELSE cl_receive
    /\ UNCHANGED <<cl_initialized, cl_request_id, cl_pending, cl_task, cl_wire, cl_log>>
    /\ UNCHANGED notClientVars

Waiting(c) == cl_task[c].pc \in {"init_wait", "call_wait"}

\* asyncio.wait_for gives up after 30 s: the future is cancelled, the entry
\* popped, TimeoutError raised to the caller
timeout(c) ==
    LET request_id == cl_task[c].req
    IN  /\ Waiting(c)
        /\ cl_pending[request_id].state = "pending"
        /\ cl_pending' = Remove(cl_pending, request_id)
        /\ cl_task' = [cl_task EXCEPT ![c] = TaskIdle("raised")]
        /\ cl_log' = [cl_log EXCEPT ![request_id].outcome =
                         Append(@, [kind |-> "timeout"])]
        /\ UNCHANGED <<cl_initialized, cl_request_id, cl_receive, cl_closed, cl_wire>>
        /\ UNCHANGED notClientVars

\* the caller wakes up with its future done: _send_request pops the entry and
\* returns the result or raises; initialize goes on to set _initialized and
\* to send notifications/initialized
resume(c, send_ok) ==
    LET request_id == cl_task[c].req
        future == cl_pending[request_id]
        api == cl_task[c].api
        fails == future.state = "exception" \/ future.value.kind = "error"
        log == [cl_log EXCEPT ![request_id].outcome =
                   Append(@, IF future.state = "exception"
                             THEN [kind |-> "transport_error"]
                             ELSE [kind |-> "reply", message |-> future.value])]
        written == send_ok /\ ~cl_closed
    IN  /\ Waiting(c)
        /\ future.state \in {"result", "exception"}
        /\ cl_pending' = Remove(cl_pending, request_id)
        /\ cl_log' = log
        /\ IF fails
           THEN /\ cl_task' = [cl_task EXCEPT ![c] = TaskIdle("raised")]
                /\ UNCHANGED <<cl_initialized, cl_wire>>
           ELSE IF cl_task[c].pc = "call_wait"
           THEN /\ cl_task' = [cl_task EXCEPT ![c] = TaskIdle("returned")]
                /\ UNCHANGED <<cl_initialized, cl_wire>>
           ELSE /\ cl_initialized' = TRUE
                /\ cl_wire' = IF written
                              THEN Append(cl_wire,
                                          [id |-> 0,
                                           method |-> "notifications/initialized"])
                              ELSE cl_wire
                /\ cl_task' = [cl_task EXCEPT ![c] =
                                  IF ~written THEN TaskIdle("raised")
                                  ELSE IF api = "initialize" THEN TaskIdle("returned")
                                  ELSE TaskWaiting("call_send", api, 0)]
        /\ UNCHANGED <<cl_request_id, cl_receive, cl_closed>>
        /\ UNCHANGED notClientVars

\* list_tools or call_tool, initialize having returned, sends its request
send_call(c, send_ok) ==
    /\ cl_task[c].pc = "call_send"
    /\ SendRequest(c, cl_task[c].api, MethodOf(cl_task[c].api), "call_wait",
                   send_ok, cl_log)
    /\ UNCHANGED <<cl_initialized, cl_receive, cl_closed>>
    /\ UNCHANGED notClientVars

NextClient ==
    \/ \E c \in Callers, api \in Apis, send_ok \in BOOLEAN : call(c, api, send_ok)
    \/ \E message \in Replies : receive_message(message)
    \/ receive_raises
    \/ \E cause \in {"eof", "error"} : stream_ends(cause)
    \/ close
    \/ \E c \in Callers : timeout(c)
    \/ \E c \in Callers, send_ok \in BOOLEAN : resume(c, send_ok)
    \/ \E c \in Callers, send_ok \in BOOLEAN : send_call(c, send_ok)

\* ------------------------------------------------------------------------
\* MCP server (mcp/server.py)
\* ------------------------------------------------------------------------
METHOD_NOT_FOUND == -32601
INTERNAL_ERROR == -32603

ServerMethods == {"initialize", "tools/list", "tools/call", "ping"}

\* the messages a client can send: has_id is false for a notification,
\* envelope says whether MCPRequest accepts the message, params whether
\* CallToolParams accepts its params, tool how the tool it names behaves
Requests ==
    [has_id : BOOLEAN, id : {1, 2}, envelope : BOOLEAN, method : ServerMethods,
     params : {"valid", "invalid"}, tool : {"ok", "unknown", "raises"}]

Response(request, kind, code, is_error) ==
    [id |-> request.id, method |-> request.method, kind |-> kind, code |-> code,
     isError |-> is_error]

InitServer ==
    /\ sv_initialized = FALSE
    /\ sv_running = TRUE
    /\ sv_sent = <<>>
    /\ sv_arrived = <<>>

\* "if not self._initialized: raise RuntimeError" in the tools handlers
NotInitialized_never == FALSE

NotInitialized == ~sv_initialized

\* _handle_request: the response to a request, as (response, initialized)
handle_request(request) ==
    IF ~request.envelope
    THEN <<Response(request, "error", INTERNAL_ERROR, FALSE), sv_initialized>>
    ELSE CASE request.method = "initialize" ->
                <<Response(request, "result", 0, FALSE), TRUE>>
           [] request.method = "tools/list" ->
                IF NotInitialized
                THEN <<Response(request, "error", INTERNAL_ERROR, FALSE), sv_initialized>>
                ELSE <<Response(request, "result", 0, FALSE), sv_initialized>>
           [] request.method = "tools/call" ->
                IF NotInitialized \/ request.params = "invalid"
                THEN <<Response(request, "error", INTERNAL_ERROR, FALSE), sv_initialized>>
                ELSE <<Response(request, "result", 0, request.tool # "ok"),
                       sv_initialized>>
           [] OTHER ->
                <<Response(request, "error", METHOD_NOT_FOUND, FALSE), sv_initialized>>

\* "if 'id' not in message": the message is a notification
Notification_never(request) == FALSE

Notification(request) == ~request.has_id

\* one round of run(): a message is received; a notification is skipped, a
\* request handled and its response sent
server_receive(request) ==
    /\ sv_running
    /\ Len(sv_arrived) < MaxResponses
    /\ sv_arrived' = Append(sv_arrived, IF request.has_id THEN <<request.id>> ELSE <<>>)
    /\ IF Notification(request)
       THEN UNCHANGED <<sv_initialized, sv_sent>>
       ELSE /\ sv_sent' = Append(sv_sent, handle_request(request)[1])
            /\ sv_initialized' = handle_request(request)[2]
    /\ UNCHANGED sv_running
    /\ UNCHANGED notServerVars

\* the incoming stream ends or a send raises: run() closes the transport
server_stops ==
    /\ sv_running
    /\ sv_running' = FALSE
    /\ UNCHANGED <<sv_initialized, sv_sent, sv_arrived>>
    /\ UNCHANGED notServerVars

NextServer ==
    \/ \E request \in Requests : server_receive(request)
    \/ server_stops

\* ------------------------------------------------------------------------
\* Tool Registry (tools/base.py) and the sub-agent's dispatch (agents.py)
\* ------------------------------------------------------------------------
ToolNames == {"read", "bash"}       \* the names a tool call can carry

\* the argument objects of a call: one the tool's execute can bind, one it
\* cannot (a missing or unexpected keyword, or no mapping at all)
Arguments == {"bindable", "unbindable"}

\* what the tool's execute does once entered: it returns its output, it
\* raises an Exception, or KeyboardInterrupt is raised inside it
Behaviours == {"returns", "raises", "interrupted"}

Range(seq) == {seq[i] : i \in 1..Len(seq)}

\* the texts the code builds, as their parts
UnknownToolText(name) == <<"Error: Unknown tool '", name, "'">>

ErrorExecutingText(name, reason) == <<"Error executing ", name, ": ", reason>>

NotAvailableText(name) == <<"Error: Tool '", name, "' is not available to this agent">>

HookBlockedText(reason) == <<"[Hook blocked]: ", reason>>

InitTools ==
    /\ tr_tools = <<>>
    /\ tr_calls = <<>>
    /\ ag_effective = <<None>>
    /\ ag_results = <<>>

\* ToolRegistry.register
register(name) ==
    /\ tr_tools' = IF name \in Range(tr_tools) THEN tr_tools ELSE Append(tr_tools, name)
    /\ UNCHANGED <<tr_calls, ag_effective, ag_results>>
    /\ UNCHANGED notToolVars

\* "if tool is None": the name has no tool
Registered_always(name) == TRUE

Registered(name) == name \in Range(tr_tools)

\* "except Exception": what the registry catches of what the call raises
Caught_nothing(failure) == FALSE

Caught(failure) == failure \in {"raises", "unbindable"}

\* ToolRegistry.execute(name, arguments): the value returned, or raised;
\* entered says whether the tool's execute ran
ToolRegistry_execute(name, arguments, behaviour) ==
    IF ~Registered(name)
    THEN [name |-> name, entered |-> FALSE, raised |-> FALSE,
          value |-> UnknownToolText(name)]
    ELSE LET entered == arguments = "bindable"
             failure == IF ~entered THEN "unbindable" ELSE behaviour
         IN  IF failure = "returns"
             THEN [name |-> name, entered |-> TRUE, raised |-> FALSE,
                   value |-> <<"output">>]
             ELSE IF Caught(failure)
             THEN [name |-> name, entered |-> entered, raised |-> FALSE,
                   value |-> ErrorExecutingText(name, failure)]
             ELSE [name |-> name, entered |-> entered, raised |-> TRUE,
                   value |-> <<failure>>]

\* the registry is called by the session's tool_executor
execute(name, arguments, behaviour) ==
    /\ Len(tr_calls) < MaxDispatches
    /\ tr_calls' = Append(tr_calls, ToolRegistry_execute(name, arguments, behaviour))
    /\ UNCHANGED <<tr_tools, ag_effective, ag_results>>
    /\ UNCHANGED notToolVars

\* Agent.get_effective_tools(all_tools)
get_effective_tools_disallowed_first(allowed_tools, disallowed_tools, all_tools) ==
    IF disallowed_tools # <<None>>
    THEN SelectSeq(all_tools, LAMBDA t : t \notin Range(disallowed_tools))
    ELSE IF allowed_tools # <<None>>
    THEN SelectSeq(allowed_tools, LAMBDA t : t \in Range(all_tools))
    ELSE all_tools

get_effective_tools(allowed_tools, disallowed_tools, all_tools) ==
    IF allowed_tools # <<None>>
    THEN SelectSeq(allowed_tools, LAMBDA t : t \in Range(all_tools))
    ELSE IF disallowed_tools # <<None>>
    THEN SelectSeq(all_tools, LAMBDA t : t \notin Range(disallowed_tools))
    ELSE all_tools

\* the lists an agent definition can carry: none, or up to two names
ToolLists == {<<None>>} \cup UNION {[1..n -> ToolNames] : n \in 0..2}

\* run_agent up to its chat_turn: the agent's tools are fixed
run_agent(allowed_tools, disallowed_tools) ==
    /\ ag_effective = <<None>>
    /\ ag_effective' = get_effective_tools(allowed_tools, disallowed_tools, tr_tools)
    /\ ag_results' = <<>>
    /\ UNCHANGED <<tr_tools, tr_calls>>
    /\ UNCHANGED notToolVars

\* "if tc.name not in allowed_tools": the sub-agent refuses the call
Unavailable_never(name) == FALSE

Unavailable(name) == name \notin Range(ag_effective)

\* one round of chat_turn's dispatch loop in a sub-agent run: the pre-tool
\* hooks (none, allowing, or denying), run_agent's tool_executor, the
\* post-tool hooks (none, or adding context), add_tool_result
agent_dispatch(name, arguments, behaviour, pre_hook, post_hook) ==
    LET made == ToolRegistry_execute(name, arguments, behaviour)
        executor == IF Unavailable(name)
                    THEN [raised |-> FALSE, value |-> NotAvailableText(name)]
                    ELSE [raised |-> made.raised, value |-> made.value]
        result == IF executor.raised THEN <<"Error: ">> \o executor.value
                  ELSE IF post_hook = "context"
                  THEN executor.value \o <<"\n\n", "context">>
                  ELSE executor.value
    IN  /\ ag_effective # <<None>>
        /\ Len(ag_results) < MaxDispatches
        /\ Len(tr_calls) < MaxDispatches
        /\ IF pre_hook = "deny"
           THEN /\ ag_results' = Append(ag_results,
                                        [name |-> name,
                                         result |-> HookBlockedText("reason")])
                /\ UNCHANGED tr_calls
           ELSE /\ tr_calls' = IF Unavailable(name) THEN tr_calls
                               ELSE Append(tr_calls, made)
                /\ ag_results' =
                       IF executor.raised /\ executor.value = <<"interrupted">>
                       THEN ag_results
                       ELSE Append(ag_results, [name |-> name, result |-> result])
        /\ UNCHANGED <<tr_tools, ag_effective>>
        /\ UNCHANGED notToolVars

\* the sub-agent's chat_turn has ended
agent_returns ==
    /\ ag_effective # <<None>>
    /\ ag_effective' = <<None>>
    /\ UNCHANGED <<tr_tools, tr_calls, ag_results>>
    /\ UNCHANGED notToolVars

NextTools ==
    \/ \E name \in ToolNames : register(name)
    \/ \E name \in ToolNames, arguments \in Arguments, behaviour \in Behaviours :
           execute(name, arguments, behaviour)
    \/ \E allowed_tools \in ToolLists, disallowed_tools \in ToolLists :
           run_agent(allowed_tools, disallowed_tools)
    \/ \E name \in ToolNames, arguments \in Arguments, behaviour \in Behaviours,
          pre_hook \in {"none", "allow", "deny"}, post_hook \in {"none", "context"} :
           agent_dispatch(name, arguments, behaviour, pre_hook, post_hook)
    \/ agent_returns

\* ------------------------------------------------------------------------
\* A Rewind Manager with its Snapshot Storage (rewind.py, snapshots.py)
\* ------------------------------------------------------------------------
\* what read_file_safe returns and what a tool hands to capture_after
Captured == Texts \cup {None}

\* datetime.now(): seconds and microseconds
Timestamps == {<<1, 500>>}

Summaries == {None, "s"}

MessageIndexes == {2}

TurnNumbers == 1..MaxTurns

TurnCheckpoint(turn_number, message_index, timestamp, file_changes, summary) ==
    [turn_number |-> turn_number, message_index |-> message_index,
     timestamp |-> timestamp, file_changes |-> file_changes, summary |-> summary]

\* datetime.isoformat: the fraction is written only when it is not zero
isoformat(timestamp) ==
    IF timestamp[2] = 0 THEN <<timestamp[1]>> ELSE <<timestamp[1], timestamp[2]>>

\* datetime.fromisoformat
fromisoformat(text) ==
    IF Len(text) = 1 THEN <<text[1], 0>> ELSE <<text[1], text[2]>>

NotSaving == [pc |-> "idle", done |-> 0]

InitStorage ==
    /\ sm_alive = TRUE
    /\ sm_turn_in_progress = FALSE
    /\ sm_changes = <<>>
    /\ sm_current_turn = 0
    /\ sm_checkpoints = <<>>
    /\ sm_originals = EmptyMap
    /\ sm_saving = NotSaving
    /\ fs_rewind = <<>>
    /\ fs_meta = [x \in Paths |-> Absent]
    /\ fs_originals = [x \in Paths |-> Absent]
    /\ fs_manifest = [n \in TurnNumbers |-> <<>>]
    /\ fs_snapshots = [n \in TurnNumbers |-> [x \in Paths |-> Absent]]
    /\ st_shown = <<>>
    /\ st_lost = 0

\* SnapshotStorage.load_original: <<existed, content>>
load_original(path) ==
    IF fs_meta[path] = Absent THEN <<FALSE, None>>
    ELSE IF fs_meta[path] = "false" THEN <<FALSE, None>>
    ELSE IF fs_originals[path] = Absent THEN <<TRUE, None>>
    ELSE <<TRUE, fs_originals[path]>>

\* SnapshotStorage.load_turn: <<>> for None, <<checkpoint>> otherwise
load_turn(turn_number) ==
    IF fs_manifest[turn_number] = <<>> THEN <<>>
    ELSE LET manifest_data == fs_manifest[turn_number][1]
             loaded(change_entry) ==
                 LET original == load_original(change_entry.path)
                     snapshot == fs_snapshots[turn_number][change_entry.path]
                 IN  FileChange(change_entry.path, change_entry.change_type,
                                IF original[1] THEN original[2] ELSE None,
                                IF snapshot = Absent THEN None ELSE snapshot)
         IN  <<TurnCheckpoint(manifest_data.turn_number,
                              manifest_data.message_index,
                              fromisoformat(manifest_data.timestamp),
                              [i \in 1..Len(manifest_data.changes) |->
                                   loaded(manifest_data.changes[i])],
                              manifest_data.summary)>>

\* the turns load_rewind_state loads: all the directories that hold a manifest
CheckpointTurns_listed(state_data) ==
    SelectSeq([n \in TurnNumbers |-> n], LAMBDA n : fs_manifest[n] # <<>>)

\* the turns load_rewind_state loads: rewind.json's "checkpoint_turns"
CheckpointTurns(state_data) == state_data.checkpoint_turns

\* SnapshotStorage.load_rewind_state: <<>> for None, <<state>> otherwise
load_rewind_state ==
    IF fs_rewind = <<>> THEN <<>>
    ELSE LET state_data == fs_rewind[1]
             turns == CheckpointTurns(state_data)
         IN  <<[current_turn |-> state_data.current_turn,
                checkpoints |-> Concat([i \in 1..Len(turns) |-> load_turn(turns[i])]),
                originals |-> state_data.originals]>>

TurnNumbersOf(cps) == [i \in 1..Len(cps) |-> cps[i].turn_number]

\* what a manager loaded now would show: its current_turn and its checkpoints'
\* turn numbers; <<>> when RewindManager.load returns None
Shown ==
    IF load_rewind_state = <<>> THEN <<>>
    ELSE <<[current_turn |-> load_rewind_state[1].current_turn,
            turns |-> TurnNumbersOf(load_rewind_state[1].checkpoints)]>>

\* the manager is between two calls
Callable == sm_alive /\ sm_saving.pc = "idle"

begin_turn_stored ==
    /\ Callable
    /\ sm_turn_in_progress' = TRUE
    /\ sm_changes' = <<>>
    /\ st_shown' = Shown
    /\ st_lost' = 0
    /\ UNCHANGED <<sm_alive, sm_current_turn, sm_checkpoints, sm_originals, sm_saving,
                   fs_rewind, fs_meta, fs_originals, fs_manifest, fs_snapshots>>
    /\ UNCHANGED notStorageVars

\* capture_before with its save_original; content is what read_file_safe reads
capture_before_stored(path, content) ==
    /\ Callable
    /\ sm_turn_in_progress
    /\ IndexOf(sm_changes, path) = 0
    /\ IF path \notin DOMAIN sm_originals
       THEN /\ sm_originals' = Put(sm_originals, path, content)
            /\ fs_meta' = [fs_meta EXCEPT
                              ![path] = IF content # None THEN "true" ELSE "false"]
            /\ fs_originals' = IF content # None
                               THEN [fs_originals EXCEPT ![path] = content]
                               ELSE fs_originals
       ELSE UNCHANGED <<sm_originals, fs_meta, fs_originals>>
    /\ sm_changes' = Append(sm_changes,
                            FileChange(path,
                                       IF content = None THEN CREATED ELSE MODIFIED,
                                       content, None))
    /\ st_lost' = 0
    /\ UNCHANGED <<sm_alive, sm_turn_in_progress, sm_current_turn, sm_checkpoints,
                   sm_saving, fs_rewind, fs_manifest, fs_snapshots, st_shown>>
    /\ UNCHANGED notStorageVars

\* capture_after with the change type left to be detected
capture_after_stored(path, content) ==
    /\ Callable
    /\ sm_turn_in_progress
    /\ LET had == IndexOf(sm_changes, path) # 0
           changes == IF had THEN sm_changes
                      ELSE Append(sm_changes,
                                  FileChange(path, MODIFIED,
                                             IF path \in DOMAIN sm_originals
                                             THEN sm_originals[path] ELSE None,
                                             None))
           i == IndexOf(changes, path)
           ct == IF content = None THEN DELETED
                 ELSE IF changes[i].content_before = None THEN CREATED
                 ELSE MODIFIED
       IN  sm_changes' = [changes EXCEPT
                              ![i] = FileChange(path, ct, changes[i].content_before,
                                                content)]
    /\ st_lost' = 0
    /\ UNCHANGED <<sm_alive, sm_turn_in_progress, sm_current_turn, sm_checkpoints,
                   sm_originals, sm_saving, fs_rewind, fs_meta, fs_originals,
                   fs_manifest, fs_snapshots, st_shown>>
    /\ UNCHANGED notStorageVars

\* end_turn up to save_turn's mkdir of the turn's directory
end_turn_stored(message_index, timestamp, summary) ==
    /\ Callable
    /\ sm_current_turn < MaxTurns
    /\ sm_current_turn' = sm_current_turn + 1
    /\ sm_checkpoints' = Append(sm_checkpoints,
                                TurnCheckpoint(sm_current_turn + 1, message_index,
                                               timestamp, sm_changes, summary))
    /\ sm_saving' = [pc |-> "snapshots", done |-> 0]
    /\ st_lost' = 0
    /\ UNCHANGED <<sm_alive, sm_turn_in_progress, sm_changes, sm_originals,
                   fs_rewind, fs_meta, fs_originals, fs_manifest, fs_snapshots,
                   st_shown>>
    /\ UNCHANGED notStorageVars

\* the checkpoint save_turn is writing
Saving == sm_checkpoints[Len(sm_checkpoints)]

\* save_turn's loop: the next change's content_after is written, unless None
save_turn_snapshot ==
    /\ sm_alive
    /\ sm_saving.pc = "snapshots"
    /\ sm_saving.done < Len(Saving.file_changes)
    /\ LET change == Saving.file_changes[sm_saving.done + 1]
       IN  fs_snapshots' =
               IF change.content_after # None
               THEN [fs_snapshots EXCEPT
                         ![Saving.turn_number][change.path] = change.content_after]
               ELSE fs_snapshots
    /\ sm_saving' = [sm_saving EXCEPT !.done = @ + 1]
    /\ UNCHANGED <<sm_alive, sm_turn_in_progress, sm_changes, sm_current_turn,
                   sm_checkpoints, sm_originals, fs_rewind, fs_meta, fs_originals,
                   fs_manifest, st_shown, st_lost>>
    /\ UNCHANGED notStorageVars

\* save_turn opens manifest.json for writing: the file is there and empty,
\* which load_turn reads as it reads a missing one
save_turn_manifest_open ==
    /\ sm_alive
    /\ sm_saving.pc = "snapshots"
    /\ sm_saving.done = Len(Saving.file_changes)
    /\ fs_manifest' = [fs_manifest EXCEPT ![Saving.turn_number] = <<>>]
    /\ sm_saving' = [sm_saving EXCEPT !.pc = "manifest"]
    /\ UNCHANGED <<sm_alive, sm_turn_in_progress, sm_changes, sm_current_turn,
                   sm_checkpoints, sm_originals, fs_rewind, fs_meta, fs_originals,
                   fs_snapshots, st_shown, st_lost>>
    /\ UNCHANGED notStorageVars

\* save_turn dumps the manifest, and end_turn resets the turn and returns
end_turn_returns ==
    /\ sm_alive
    /\ sm_saving.pc = "manifest"
    /\ fs_manifest' =
           [fs_manifest EXCEPT
                ![Saving.turn_number] =
                    <<[turn_number |-> Saving.turn_number,
                       message_index |-> Saving.message_index,
                       timestamp |-> isoformat(Saving.timestamp),
                       summary |-> Saving.summary,
                       changes |-> [i \in 1..Len(Saving.file_changes) |->
                                        [path |-> Saving.file_changes[i].path,
                                         change_type |->
                                             Saving.file_changes[i].change_type]]]>>]
    /\ sm_saving' = NotSaving
    /\ sm_turn_in_progress' = FALSE
    /\ sm_changes' = <<>>
    /\ UNCHANGED <<sm_alive, sm_current_turn, sm_checkpoints, sm_originals,
                   fs_rewind, fs_meta, fs_originals, fs_snapshots, st_shown, st_lost>>
    /\ UNCHANGED notStorageVars

\* what rewind_to_turn and rewind_conversation_only do to the state and the
\* storage: prune, set current_turn, persist (save_rewind_state)
rewind_persisted(turn_number) ==
    /\ Callable
    /\ turn_number >= 0 /\ turn_number <= sm_current_turn
    /\ sm_checkpoints' = SelectSeq(sm_checkpoints,
                                   LAMBDA cp : cp.turn_number <= turn_number)
    /\ sm_current_turn' = turn_number
    /\ fs_rewind' = <<[current_turn |-> turn_number,
                       originals |-> sm_originals,
                       checkpoint_turns |-> TurnNumbersOf(sm_checkpoints')]>>
    /\ UNCHANGED <<sm_alive, sm_turn_in_progress, sm_changes, sm_originals, sm_saving,
                   fs_meta, fs_originals, fs_manifest, fs_snapshots>>
    /\ st_shown' = Shown'
    /\ st_lost' = 0
    /\ UNCHANGED notStorageVars

\* the process stops: what the manager held in memory is gone
process_stops ==
    /\ sm_alive
    /\ sm_alive' = FALSE
    /\ sm_turn_in_progress' = FALSE
    /\ sm_changes' = <<>>
    /\ sm_current_turn' = 0
    /\ sm_checkpoints' = <<>>
    /\ sm_originals' = EmptyMap
    /\ sm_saving' = NotSaving
    /\ st_lost' = IF ~sm_turn_in_progress THEN 0
                  ELSE IF sm_saving.pc # "idle" THEN sm_current_turn
                  ELSE sm_current_turn + 1
    /\ UNCHANGED <<fs_rewind, fs_meta, fs_originals, fs_manifest, fs_snapshots,
                   st_shown>>
    /\ UNCHANGED notStorageVars

\* RewindManager.load in a new process; with None there is no manager
load ==
    /\ ~sm_alive
    /\ load_rewind_state # <<>>
    /\ sm_alive' = TRUE
    /\ sm_current_turn' = load_rewind_state[1].current_turn
    /\ sm_checkpoints' = load_rewind_state[1].checkpoints
    /\ sm_originals' = load_rewind_state[1].originals
    /\ UNCHANGED <<sm_turn_in_progress, sm_changes, sm_saving, fs_rewind, fs_meta,
                   fs_originals, fs_manifest, fs_snapshots, st_shown, st_lost>>
    /\ UNCHANGED notStorageVars

NextStorage ==
    \/ begin_turn_stored
    \/ \E path \in Paths, content \in Captured : capture_before_stored(path, content)
    \/ \E path \in Paths, content \in Captured : capture_after_stored(path, content)
    \/ \E mi \in MessageIndexes, ts \in Timestamps, summary \in Summaries :
           end_turn_stored(mi, ts, summary)
    \/ save_turn_snapshot
    \/ save_turn_manifest_open
    \/ end_turn_returns
    \/ \E n \in 0..MaxTurns : rewind_persisted(n)
    \/ process_stops
    \/ load

\* ------------------------------------------------------------------------
\* StdioTransport.receive / ProcessTransport.receive (mcp/transport.py)
\* ------------------------------------------------------------------------
\* the lines a peer writes, as what is left of each after decode and strip:
\* two JSON objects, a text that is not JSON, a line of white space
Lines == {<<"{", 1, "}">>, <<"{", 2, "}">>, <<"not json">>, <<>>}

\* json.loads: the message, or raised when the text is not JSON
json_loads(line_str) ==
    IF Len(line_str) = 3
    THEN [raised |-> FALSE, value |-> <<[id |-> line_str[2]]>>]
    ELSE [raised |-> TRUE, value |-> <<>>]

InitTransport ==
    /\ tp_lines = <<>>
    /\ tp_read = <<>>
    /\ tp_yielded = <<>>
    /\ tp_receive = "running"

\* the peer writes a line to the channel
peer_writes(line) ==
    /\ tp_receive # "eof"
    /\ Len(tp_read) + Len(tp_lines) < MaxLines
    /\ tp_lines' = Append(tp_lines, line)
    /\ UNCHANGED <<tp_read, tp_yielded, tp_receive>>
    /\ UNCHANGED notTransportVars

\* "except Exception as e: ... break": what raised in the loop's body ends it
Breaks(parsed) == parsed.raised

\* one round of receive()'s loop with a line to read: an empty line_str is
\* passed over, a message is yielded, an exception is written to stderr
receive_line ==
    /\ tp_receive = "running"
    /\ tp_lines # <<>>
    /\ LET line_str == Head(tp_lines)
           parsed == json_loads(line_str)
       IN  /\ tp_lines' = Tail(tp_lines)
           /\ tp_read' = Append(tp_read, line_str)
           /\ IF line_str = <<>>
              THEN UNCHANGED <<tp_yielded, tp_receive>>
              ELSE IF Breaks(parsed)
              THEN tp_receive' = "failed" /\ UNCHANGED tp_yielded
              ELSE tp_yielded' = tp_yielded \o parsed.value /\ UNCHANGED tp_receive
    /\ UNCHANGED notTransportVars

\* readline returns no bytes: the peer has closed the channel
receive_eof ==
    /\ tp_receive = "running"
    /\ tp_lines = <<>>
    /\ tp_receive' = "eof"
    /\ UNCHANGED <<tp_lines, tp_read, tp_yielded>>
    /\ UNCHANGED notTransportVars

\* close(): _closed is set and the loop's condition ends receive()
transport_close ==
    /\ tp_receive = "running"
    /\ tp_receive' = "closed"
    /\ UNCHANGED <<tp_lines, tp_read, tp_yielded>>
    /\ UNCHANGED notTransportVars

NextTransport ==
    \/ \E line \in Lines : peer_writes(line)
    \/ receive_line
    \/ receive_eof
    \/ transport_close

\* ------------------------------------------------------------------------
\* The built-in tools (tools/edit.py, tools/write.py, tools/bash.py)
\* ------------------------------------------------------------------------
\* a text is the sequence of its characters; no white space, no line break
Chars == {"a", "b"}

RECURSIVE Strings(_)
Strings(n) ==
    IF n = 0 THEN {<<>>}
    ELSE Strings(n - 1) \cup {Append(t, c) : t \in Strings(n - 1), c \in Chars}

NoFile == [kind |-> "absent", content |-> <<>>]
Directory == [kind |-> "dir", content |-> <<>>]
File(content) == [kind |-> "file", content |-> content]

StartsWith(text, sub) == Len(sub) <= Len(text) /\ SubSeq(text, 1, Len(sub)) = sub

\* Python's "sub in text"
Contains(text, sub) ==
    \E i \in 1..(Len(text) - Len(sub) + 1) : SubSeq(text, i, i + Len(sub) - 1) = sub

\* Python's str.count: the matches met scanning from the left, the scan
\* going on after the end of each match
RECURSIVE str_count(_, _)
str_count(text, sub) ==
    IF sub = <<>> THEN Len(text) + 1
    ELSE IF Len(text) < Len(sub) THEN 0
    ELSE IF StartsWith(text, sub)
    THEN 1 + str_count(SubSeq(text, Len(sub) + 1, Len(text)), sub)
    ELSE str_count(Tail(text), sub)

\* Python's str.replace(old, new, count); count = -1 replaces every match
RECURSIVE str_replace(_, _, _, _)
str_replace(text, old, new, count) ==
    IF count = 0 THEN text
    ELSE IF old = <<>>
    THEN new \o (IF text = <<>> THEN <<>>
                 ELSE <<Head(text)>> \o str_replace(Tail(text), old, new, count - 1))
    ELSE IF Len(text) < Len(old) THEN text
    ELSE IF StartsWith(text, old)
    THEN new \o str_replace(SubSeq(text, Len(old) + 1, Len(text)), old, new, count - 1)
    ELSE <<Head(text)>> \o str_replace(Tail(text), old, new, count)

\* "with open(path, "w") as f: f.write(data)": open raises and the file is
\* as it was; or open has emptied the file and write raises with the first k
\* characters in it; or all of data is written
Steps == {"open", "write", "done"}

Opened(file, data, step, k) ==
    IF step = "open" \/ file.kind = "dir" THEN file
    ELSE IF step = "write" THEN File(SubSeq(data, 1, k))
    ELSE File(data)

Raised(file, step) == step # "done" \/ file.kind = "dir"

InitBuiltin ==
    /\ bt_file = NoFile
    /\ bt_result = [tool |-> "none"]

\* "if count > 1 and not replace_all": the edit is refused
Ambiguous(count, replace_all) == count > 1 /\ ~replace_all

\* EditTool.execute. With no line break and no white space in a text the
\* hint of the "not found" result is always empty.
edit(old_string, new_string, replace_all, reads, step, k) ==
    /\ LET content == bt_file.content
           count == str_count(content, old_string)
           new_content == IF replace_all
                          THEN str_replace(content, old_string, new_string, -1)
                          ELSE str_replace(content, old_string, new_string, 1)
           replaced_count == IF replace_all THEN count ELSE 1
           Result(status, n) ==
               [tool |-> "edit", status |-> status, count |-> n, before |-> bt_file,
                call |-> [old_string |-> old_string, new_string |-> new_string,
                          replace_all |-> replace_all]]
       IN  IF bt_file.kind = "absent"
           THEN bt_result' = Result("Error: File not found", 0) /\ UNCHANGED bt_file
           ELSE IF bt_file.kind # "file"
           THEN bt_result' = Result("Error: Not a file", 0) /\ UNCHANGED bt_file
           ELSE IF ~reads
           THEN bt_result' = Result("Error reading file", 0) /\ UNCHANGED bt_file
           ELSE IF ~Contains(content, old_string)
           THEN bt_result' = Result("Error: old_string not found in file.", 0)
                /\ UNCHANGED bt_file
           ELSE IF Ambiguous(count, replace_all)
           THEN bt_result' = Result("Error: Found occurrences", count)
                /\ UNCHANGED bt_file
           ELSE /\ Len(new_content) <= MaxChars
                /\ k <= Len(new_content)
                /\ bt_file' = Opened(bt_file, new_content, step, k)
                /\ bt_result' = IF Raised(bt_file, step)
                                THEN Result("Error writing file", 0)
                                ELSE Result("Replaced", replaced_count)
    /\ UNCHANGED notBuiltinVars

\* "line_count = content.count("\n") + (1 if content and not
\* content.endswith("\n") else 0)", no text having a line break
line_count(content) == IF content # <<>> THEN 1 ELSE 0

\* WriteTool.execute
write(content, mkdir, step, k) ==
    /\ k < Len(content) \/ k = 0
    /\ LET existed == bt_file.kind # "absent"
           Result(status, n) ==
               [tool |-> "write", status |-> status, count |-> n, before |-> bt_file,
                call |-> [content |-> content]]
       IN  IF ~mkdir
           THEN bt_result' = Result("Error creating directory", 0) /\ UNCHANGED bt_file
           ELSE /\ bt_file' = Opened(bt_file, content, step, k)
                /\ bt_result' = IF Raised(bt_file, step)
                                THEN Result("Error writing file", 0)
                                ELSE Result(IF existed THEN "Updated" ELSE "Created",
                                            line_count(content))
    /\ UNCHANGED notBuiltinVars

\* a directory is made where there is nothing, or what is there is removed
path_changes ==
    /\ bt_file' = IF bt_file.kind = "absent" THEN Directory ELSE NoFile
    /\ bt_result' = [tool |-> "none"]
    /\ UNCHANGED notBuiltinVars

max_chars == 50000

\* a text whose characters do not matter is the sequence of its parts, each
\* with the characters of it that are there and the characters of all of it
Part(kind, length) == [kind |-> kind, len |-> length, of |-> length]

\* text[:n]
RECURSIVE Slice(_, _)
Slice(text, n) ==
    IF text = <<>> \/ n = 0 THEN <<>>
    ELSE IF Head(text).len <= n THEN <<Head(text)>> \o Slice(Tail(text), n - Head(text).len)
    ELSE <<[Head(text) EXCEPT !.len = n]>>

RECURSIVE TextLen(_)
TextLen(text) == IF text = <<>> THEN 0 ELSE Head(text).len + TextLen(Tail(text))

\* the decimal digits of a return code, its sign included
Digits(n) == IF n < 0 THEN 1 + (IF -n < 10 THEN 1 ELSE IF -n < 100 THEN 2 ELSE 3)
             ELSE IF n < 10 THEN 1 ELSE IF n < 100 THEN 2 ELSE 3

\* f"\n[Exit code: {result.returncode}]"
ExitCodeText(returncode) == Part(<<"exit", returncode>>, 14 + Digits(returncode))

OutputLengths == {0, 10, 49990, 50000, 60000}
ReturnCodes == {0, 1, 127, -9}

\* "output = output[:max_chars] + ...": the output as cut before the note
Cut(output) == Slice(output, max_chars)

\* BashTool.execute: the command ends with a return code, or it is timed
\* out, or running it raises
bash(stdout, stderr, returncode, outcome) ==
    /\ LET parts1 == IF stdout > 0 THEN <<Part(<<"stdout", 0>>, stdout)>> ELSE <<>>
           parts2 == IF stderr > 0
                     THEN parts1
                          \o (IF parts1 # <<>> THEN <<Part(<<"--- stderr ---", 0>>, 16)>>
                              ELSE <<>>)
                          \o <<Part(<<"stderr", 0>>, stderr)>>
                     ELSE parts1
           joined == IF returncode # 0 THEN Append(parts2, ExitCodeText(returncode))
                     ELSE parts2
           output == IF TextLen(joined) > max_chars
                     THEN Append(Cut(joined), Part(<<"[Output truncated]", 0>>, 40))
                     ELSE joined
           Result(text) ==
               [tool |-> "bash", text |-> text,
                call |-> [outcome |-> outcome,
                          returncode |-> IF outcome = "completed" THEN returncode ELSE 0]]
       IN  bt_result' =
               IF outcome = "timeout"
               THEN Result(<<Part(<<"Error: Command timed out", 0>>, 42)>>)
               ELSE IF outcome = "raises"
               THEN Result(<<Part(<<"Error executing command", 0>>, 40)>>)
               ELSE Result(IF output # <<>> THEN output
                           ELSE <<Part(<<"[Command completed with no output]", 0>>, 34)>>)
    /\ UNCHANGED bt_file
    /\ UNCHANGED notBuiltinVars

NextBuiltin ==
    \/ \E old_string \in Strings(2), new_string \in Strings(1), replace_all \in BOOLEAN,
          reads \in BOOLEAN, step \in Steps, k \in 0..MaxChars :
           edit(old_string, new_string, replace_all, reads, step, k)
    \/ \E content \in Strings(MaxChars), mkdir \in BOOLEAN, step \in Steps,
          k \in 0..MaxChars :
           write(content, mkdir, step, k)
    \/ path_changes
    \/ \E stdout \in OutputLengths, stderr \in {0, 10}, returncode \in ReturnCodes,
          outcome \in {"completed", "timeout", "raises"} :
           bash(stdout, stderr, returncode, outcome)

\* ------------------------------------------------------------------------
\* One LLM call: stream_response from the stream on (chat.py)
\* ------------------------------------------------------------------------
\* the pieces an argument text comes in; "{" "}" is the text of the empty
\* object and "{" "k" "}" the text of an object with the key k
Fragments == {"{", "k", "}"}

\* json.loads of an argument text: the keys of the object, or raised
arguments_loads(text) ==
    IF text = <<"{", "}">> THEN [raised |-> FALSE, value |-> {}]
    ELSE IF text = <<"{", "k", "}">> THEN [raised |-> FALSE, value |-> {"k"}]
    ELSE [raised |-> TRUE, value |-> {}]

ToolCall(id, name, arguments) == [id |-> id, name |-> name, arguments |-> arguments]

\* the tool-call deltas of a chunk: none or one, for index 0 or 1, with an id,
\* a name and a piece of the argument text, each of which can be empty
ToolCallDeltas ==
    {<<>>} \cup {<<[index |-> i, id |-> id, name |-> name, arguments |-> a]>> :
                    i \in {0, 1}, id \in {"", "t1"}, name \in {"", "read"},
                    a \in {<<>>} \cup {<<f>> : f \in Fragments}}

Event(ev, value) == [ev |-> ev, value |-> value]

InitStream ==
    /\ sr_pc = "streaming"
    /\ sr_chunks = 0
    /\ sr_content = <<>>
    /\ sr_data = <<>>
    /\ sr_next = 0
    /\ sr_trace = <<>>

\* where the entry of an index is in tool_calls_data, 0 when it has none
EntryOf(data, idx) ==
    IF \E i \in 1..Len(data) : data[i].idx = idx
    THEN CHOOSE i \in 1..Len(data) : data[i].idx = idx
    ELSE 0

\* "for tc in delta.tool_calls": the entry of tc.index is made when it is
\* not there, and what tc carries is put in it
Accumulate(data, tc) ==
    LET entries == IF EntryOf(data, tc.index) = 0
                   THEN Append(data, [idx |-> tc.index, id |-> "", name |-> "",
                                      arguments |-> <<>>])
                   ELSE data
        i == EntryOf(entries, tc.index)
    IN  [entries EXCEPT
             ![i] = [idx |-> tc.index,
                     id |-> IF tc.id # "" THEN tc.id ELSE entries[i].id,
                     name |-> IF tc.name # "" THEN tc.name ELSE entries[i].name,
                     arguments |-> entries[i].arguments \o tc.arguments]]

\* one round of "for chunk in response": a text delta is kept and yielded,
\* the tool-call deltas are put together
stream_chunk(content, deltas) ==
    /\ sr_pc = "streaming"
    /\ sr_chunks < MaxChunks
    /\ sr_chunks' = sr_chunks + 1
    /\ IF content # ""
       THEN /\ sr_content' = Append(sr_content, content)
            /\ sr_trace' = Append(sr_trace, Event("delta", content))
       ELSE UNCHANGED <<sr_content, sr_trace>>
    /\ sr_data' = IF deltas = <<>> THEN sr_data ELSE Accumulate(sr_data, deltas[1])
    /\ UNCHANGED <<sr_pc, sr_next>>
    /\ UNCHANGED notStreamVars

\* reading the stream raises
stream_fails ==
    /\ sr_pc = "streaming"
    /\ sr_pc' = "raised"
    /\ UNCHANGED <<sr_chunks, sr_content, sr_data, sr_next, sr_trace>>
    /\ UNCHANGED notStreamVars

Replied_content_only(full_content, tool_calls_list) == full_content # <<>>

\* "if full_content or tool_calls_list": there is an assistant message to add
Replied(full_content, tool_calls_list) == full_content # <<>> \/ tool_calls_list # <<>>

\* the ToolCall of an entry of tool_calls_data; {} when json.loads raises
Parsed(entry) ==
    LET loaded == arguments_loads(entry.arguments)
    IN  ToolCall(entry.id, entry.name, IF loaded.raised THEN {} ELSE loaded.value)

\* the stream is exhausted: the assistant message is added to the
\* Conversation and stream_response goes on to its first ToolCall, or returns
stream_exhausted ==
    /\ sr_pc = "streaming"
    /\ LET added == IF Replied(sr_content, sr_data)
                    THEN <<Event("append", Message("assistant", sr_content, sr_data, None))>>
                    ELSE <<>>
       IN  IF sr_data = <<>>
           THEN /\ sr_trace' = sr_trace \o added
                /\ sr_pc' = "returned"
                /\ UNCHANGED sr_next
           ELSE /\ sr_trace' = (sr_trace \o added) \o <<Event("call", Parsed(sr_data[1]))>>
                /\ sr_pc' = "yielding"
                /\ sr_next' = 1
    /\ UNCHANGED <<sr_chunks, sr_content, sr_data>>
    /\ UNCHANGED notStreamVars

\* the caller asks for the next item: the next ToolCall, or the end
yield_tool_call ==
    /\ sr_pc = "yielding"
    /\ IF sr_next < Len(sr_data)
       THEN /\ sr_trace' = Append(sr_trace, Event("call", Parsed(sr_data[sr_next + 1])))
            /\ sr_next' = sr_next + 1
            /\ UNCHANGED sr_pc
       ELSE /\ sr_pc' = "returned"
            /\ UNCHANGED <<sr_trace, sr_next>>
    /\ UNCHANGED <<sr_chunks, sr_content, sr_data>>
    /\ UNCHANGED notStreamVars

NextStream ==
    \/ \E content \in {"", "d"}, deltas \in ToolCallDeltas : stream_chunk(content, deltas)
    \/ stream_fails
    \/ stream_exhausted
    \/ yield_tool_call

\* ------------------------------------------------------------------------
\* ProcessTransport under a client's tasks (mcp/transport.py, mcp/client.py)
\* ------------------------------------------------------------------------
Senders == {"s1", "s2"}             \* tasks in _send_request
Receiver == "r"                     \* the task of _receive_loop
Tasks == Senders \cup {Receiver}

At(pc, id) == [pc |-> pc, id |-> id]

\* close(): where it stands, the child it waits for, and how many children
\* there were when it was called
NotClosing == [pc |-> "none", child |-> 0, had |-> 0]

InitProcess ==
    /\ pt_process = 0
    /\ pt_children = <<>>
    /\ pt_task = [t \in Tasks |-> At("idle", 0)]
    /\ pt_request_id = 0
    /\ pt_written = <<>>
    /\ pt_read = {}
    /\ pt_closed = FALSE
    /\ pt_close = NotClosing
    /\ pt_signals = <<>>

\* "if self._process is None" of _ensure_process: there is a child already
Spawned == pt_process # 0

\* _send_request takes the next id and calls send: RuntimeError when the
\* transport is closed; with a child the request is written to it at once;
\* with none _ensure_process awaits create_subprocess_exec
send(s) ==
    /\ pt_task[s].pc = "idle"
    /\ pt_request_id < MaxSends
    /\ pt_request_id' = pt_request_id + 1
    /\ IF pt_closed
       THEN UNCHANGED <<pt_task, pt_written>>
       ELSE IF Spawned
       THEN /\ pt_written' = Append(pt_written,
                                    [id |-> pt_request_id + 1, child |-> pt_process])
            /\ UNCHANGED pt_task
       ELSE /\ pt_task' = [pt_task EXCEPT ![s] = At("spawning", pt_request_id + 1)]
            /\ UNCHANGED pt_written
    /\ UNCHANGED <<pt_process, pt_children, pt_read, pt_closed, pt_close, pt_signals>>
    /\ UNCHANGED notProcessVars

\* the task of _receive_loop starts: receive() calls _ensure_process
receive_starts ==
    /\ pt_task[Receiver].pc = "idle"
    /\ pt_task' = [pt_task EXCEPT ![Receiver] =
                      IF ~Spawned THEN At("spawning", 0)
                      ELSE IF pt_closed THEN At("ended", 0)
                      ELSE At("reading", 0)]
    /\ UNCHANGED <<pt_process, pt_children, pt_request_id, pt_written, pt_read,
                   pt_closed, pt_close, pt_signals>>
    /\ UNCHANGED notProcessVars

\* create_subprocess_exec returns to the task that awaited it: _process is
\* set to the new child; send writes its request to _process, receive enters
\* its loop
spawned(t) ==
    LET child == Len(pt_children) + 1
    IN  /\ pt_task[t].pc = "spawning"
        /\ pt_children' = Append(pt_children, "running")
        /\ pt_process' = child
        /\ IF t \in Senders
           THEN /\ pt_written' = Append(pt_written,
                                        [id |-> pt_task[t].id, child |-> child])
                /\ pt_task' = [pt_task EXCEPT ![t] = At("idle", 0)]
           ELSE /\ pt_task' = [pt_task EXCEPT ![t] =
                                  IF pt_closed THEN At("ended", 0) ELSE At("reading", 0)]
                /\ UNCHANGED pt_written
        /\ UNCHANGED <<pt_request_id, pt_read, pt_closed, pt_close, pt_signals>>
        /\ UNCHANGED notProcessVars

\* one round of receive()'s loop: readline on _process.stdout; the end of
\* the file when that child has exited
receive_reads ==
    /\ pt_task[Receiver].pc = "reading"
    /\ IF pt_closed \/ pt_children[pt_process] = "exited"
       THEN /\ pt_task' = [pt_task EXCEPT ![Receiver] = At("ended", 0)]
            /\ UNCHANGED pt_read
       ELSE /\ pt_read' = pt_read \cup {pt_process}
            /\ UNCHANGED pt_task
    /\ UNCHANGED <<pt_process, pt_children, pt_request_id, pt_written, pt_closed,
                   pt_close, pt_signals>>
    /\ UNCHANGED notProcessVars

\* a child exits: of itself, on the end of its stdin, or on a signal
child_exits(child) ==
    /\ child \in 1..Len(pt_children)
    /\ pt_children[child] = "running"
    /\ pt_children' = [pt_children EXCEPT ![child] = "exited"]
    /\ UNCHANGED <<pt_process, pt_task, pt_request_id, pt_written, pt_read, pt_closed,
                   pt_close, pt_signals>>
    /\ UNCHANGED notProcessVars

\* close() up to its first await: _closed is set; with a child its stdin is
\* closed and wait_closed awaited; with none close returns
close_begins ==
    /\ pt_close.pc = "none"
    /\ pt_closed' = TRUE
    /\ pt_close' = [pc |-> IF Spawned THEN "stdin" ELSE "returned", child |-> 0,
                    had |-> Len(pt_children)]
    /\ UNCHANGED <<pt_process, pt_children, pt_task, pt_request_id, pt_written,
                   pt_read, pt_signals>>
    /\ UNCHANGED notProcessVars

\* wait_closed returns: close awaits _process.wait() for up to 5 seconds
close_waits ==
    /\ pt_close.pc = "stdin"
    /\ pt_close' = [pt_close EXCEPT !.pc = "wait5", !.child = pt_process]
    /\ UNCHANGED <<pt_process, pt_children, pt_task, pt_request_id, pt_written,
                   pt_read, pt_closed, pt_signals>>
    /\ UNCHANGED notProcessVars

\* asyncio.wait_for raises TimeoutError: the child waited for has not exited
Expired(child) == pt_children[child] = "running"

Signal(name) ==
    [signal |-> name, child |-> pt_process, state |-> pt_children[pt_process]]

\* the wait of close ends: the child waited for has exited and close
\* returns, or the time is over and close sends terminate to _process and
\* waits 2 seconds, then kill and waits without limit
close_wait_ends(timed_out) ==
    /\ pt_close.pc \in {"wait5", "wait2", "wait"}
    /\ IF ~timed_out
       THEN /\ pt_children[pt_close.child] = "exited"
            /\ pt_close' = [pt_close EXCEPT !.pc = "returned"]
            /\ UNCHANGED pt_signals
       ELSE /\ pt_close.pc # "wait"
            /\ Expired(pt_close.child)
            /\ pt_signals' = Append(pt_signals,
                                    Signal(IF pt_close.pc = "wait5" THEN "terminate"
                                           ELSE "kill"))
            /\ pt_close' = [pt_close EXCEPT
                                !.pc = IF pt_close.pc = "wait5" THEN "wait2" ELSE "wait",
                                !.child = pt_process]
    /\ UNCHANGED <<pt_process, pt_children, pt_task, pt_request_id, pt_written,
                   pt_read, pt_closed>>
    /\ UNCHANGED notProcessVars

NextProcess ==
    \/ \E s \in Senders : send(s)
    \/ receive_starts
    \/ \E t \in Tasks : spawned(t)
    \/ receive_reads
    \/ \E child \in 1..Cardinality(Tasks) : child_exits(child)
    \/ close_begins
    \/ close_waits
    \/ \E timed_out \in BOOLEAN : close_wait_ends(timed_out)

\* ------------------------------------------------------------------------
\* The /rewind command (cli.py) over the Rewind Manager and the Conversation
\* ------------------------------------------------------------------------
\* Conversation.add_system_message: the system message goes first
add_system_message_to(msgs, content) ==
    <<Message("system", content, <<>>, None)>>
        \o SelectSeq(msgs, LAMBDA m : m.role # "system")

\* a turn's messages come in: the user's, then the assistant's
conversation_grows ==
    /\ Len(messages) < MaxMessages
    /\ messages' = IF messages[Len(messages)].role = "user"
                   THEN add_assistant_message("text", <<>>)
                   ELSE add_user_message("text")
    /\ UNCHANGED <<chat_pc, attempt, slept, content_chunks, tool_calls, tc_index>>
    /\ UNCHANGED <<rewindVars, clientVars, serverVars, toolVars, storageVars,
                   transportVars, builtinVars, streamVars, processVars>>

\* get_message_index_for_turn on a list of checkpoints: <<>> for None
get_message_index_for_turn(cps, turn_number) ==
    IF \E i \in 1..Len(cps) : cps[i].turn_number = turn_number
    THEN <<cps[CHOOSE i \in 1..Len(cps) :
                   /\ cps[i].turn_number = turn_number
                   /\ \A j \in 1..(i - 1) : cps[j].turn_number # turn_number
              ].message_index>>
    ELSE <<>>

\* "if message_index is not None"
Found(message_index) == message_index # <<>>

\* the /rewind handler's truncation of conversation.messages
Truncated(msgs, message_index) ==
    IF Found(message_index) /\ message_index[1] < Len(msgs)
    THEN LET kept == SubSeq(msgs, 1, message_index[1])
             systems == SelectSeq(msgs, LAMBDA m : m.role = "system")
         IN  IF systems # <<>> /\ (kept = <<>> \/ kept[1].role # "system")
             THEN <<systems[1]>> \o kept
             ELSE kept
    ELSE msgs

\* /rewind with a turn number: the range check, the conflicts and the
\* operator's answer to "Overwrite these files?", rewind_to_turn(force=True),
\* and the truncation of the Conversation
handle_rewind(target_turn, answer) ==
    LET conflicts == validate_before_rewind(target_turn)
        restore == file_restore_map(target_turn)
    IN  /\ UNCHANGED <<chat_pc, attempt, slept, content_chunks, tool_calls, tc_index>>
        /\ UNCHANGED <<clientVars, serverVars, toolVars, storageVars, transportVars,
                       builtinVars, streamVars, processVars>>
        /\ IF \/ target_turn < 0 \/ target_turn > current_turn
              \/ target_turn = current_turn
              \/ (conflicts # <<>> /\ ~answer)
           THEN /\ ret' = Idle
                /\ UNCHANGED <<disk, turn_in_progress, current_turn_changes,
                               current_turn, checkpoints, originals, pristine,
                               unsynced, snap, messages>>
           ELSE \E failing \in SUBSET (DOMAIN restore) :
                /\ disk' = [x \in Paths |->
                              IF x \in DOMAIN restore /\ x \notin failing
                              THEN IF restore[x] = None THEN Absent ELSE restore[x]
                              ELSE disk[x]]
                /\ checkpoints' = PruneCheckpoints(target_turn)
                /\ current_turn' = target_turn
                /\ ret' = RewindRet(TRUE,
                                    {x \in DOMAIN restore :
                                       x \notin failing
                                       /\ (restore[x] = None => disk[x] # Absent)},
                                    conflicts, failing)
                /\ History(pristine /\ failing = {} /\ ~turn_in_progress,
                           SubSeq(snap, 1, target_turn + 1), unsynced)
                /\ UNCHANGED <<turn_in_progress, current_turn_changes, originals>>
                /\ messages' =
                       Truncated(messages,
                                 get_message_index_for_turn(checkpoints', target_turn))

NextCli ==
    \/ conversation_grows
    \/ \E path \in Paths, content \in Texts \cup {Absent} : file_write(path, content)
    \/ begin_turn
    \/ \E arg \in Paths : capture_before(arg)
    \/ \E arg \in Paths, ct \in {None} : capture_after(arg, ct)
    \/ \E mi \in {Len(messages)} : end_turn(mi)
    \/ \E n \in TurnArgs, answer \in BOOLEAN : handle_rewind(n, answer)

Init ==
    /\ InitRewind /\ InitChat /\ InitClient /\ InitServer /\ InitTools /\ InitStorage
    /\ InitTransport /\ InitBuiltin /\ InitStream /\ InitProcess

\* the same, no file being there: for the sessions that are not about files
InitNoFiles == Init /\ disk = [x \in Paths |-> Absent]

SpecRewind == Init /\ [][NextRewind]_vars

SpecChat == InitNoFiles /\ [][NextChat]_vars

SpecClient == InitNoFiles /\ [][NextClient]_vars

SpecServer == InitNoFiles /\ [][NextServer]_vars

SpecTools == InitNoFiles /\ [][NextTools]_vars

SpecStorage == InitNoFiles /\ [][NextStorage]_vars

\* main has set the Conversation up with its system message and installed a
\* new Rewind Manager; no file is there
InitCli ==
    /\ InitRewind /\ InitClient /\ InitServer /\ InitTools /\ InitStorage
    /\ InitTransport /\ InitBuiltin /\ InitStream /\ InitProcess
    /\ disk = [x \in Paths |-> Absent]
    /\ messages = add_system_message_to(<<>>, "prompt")
    /\ chat_pc = "idle"
    /\ attempt = 0
    /\ slept = <<>>
    /\ content_chunks = FALSE
    /\ tool_calls = <<>>
    /\ tc_index = 0

SpecCli == InitCli /\ [][NextCli]_vars

SpecTransport == InitNoFiles /\ [][NextTransport]_vars

SpecBuiltin == InitNoFiles /\ [][NextBuiltin]_vars

SpecStream == InitNoFiles /\ [][NextStream]_vars

SpecProcess == InitNoFiles /\ [][NextProcess]_vars

\* ------------------------------------------------------------------------
\* Statements about the Rewind Manager
\* ------------------------------------------------------------------------
\* the undo set: the paths with a FileChange in a turn later than n
UndoSet(n) ==
    LET changes == get_files_modified_after_turn(n)
    IN  {changes[i].path : i \in 1..Len(changes)}


\* a rewind_to_turn(n, force) step that succeeded and restored without error
RewoundTo(n, force) ==
    /\ rewind_to_turn(n, force)
    /\ ret'.ok
    /\ ret'.errors = {}

\* C1: in a session of completed turns only (begin_turn, a capture_before and
\* capture_after pair around every file change, end_turn, nothing written
\* outside the pairs), a successful rewind_to_turn(n), n >= 1, leaves every
\* path changed in a later turn with the content it had at the end of turn n,
\* absent if it did not exist then, and sets current_turn to n.  (Stated for
\* the paths of the undo set whose content differs from that of turn n.)
C1_RewindRestoresEndOfTurn ==
    [][\A n \in 1..MaxTurns : \A force \in BOOLEAN :
         (pristine /\ RewoundTo(n, force)) =>
             /\ current_turn' = n
             /\ \A x \in UndoSet(n) :
                    disk[x] # snap[n + 1][x] => disk'[x] = snap[n + 1][x]]_vars

\* The part of C1 the code meets: the same, for the paths that read_file_safe
\* could read at the end of turn n.
C1_ReadableRestored ==
    [][\A n \in 1..MaxTurns : \A force \in BOOLEAN :
         (pristine /\ RewoundTo(n, force)) =>
             /\ current_turn' = n
             /\ \A x \in UndoSet(n) :
                    snap[n + 1][x] # Big => disk'[x] = snap[n + 1][x]]_vars

\* C2: after any sequence of operations, a successful rewind_to_turn(0) leaves
\* every path that has an originals entry equal to that entry: the original
\* content, or absent when the entry is None.  (Stated for the entries that
\* hold a content.)
C2_RewindToZeroRestoresOriginals ==
    [][\A force \in BOOLEAN :
         RewoundTo(0, force) =>
             \A x \in DOMAIN originals' :
                 originals'[x] # None => disk'[x] = originals'[x]]_vars

\* the content_after recorded by the most recent checkpoint that touched path
LastAfter(path) ==
    LET changes == get_files_modified_after_turn(0)
        last == CHOOSE i \in 1..Len(changes) :
                    /\ changes[i].path = path
                    /\ \A j \in 1..Len(changes) : changes[j].path = path => j <= i
    IN  changes[last].content_after

\* C3: validate_before_rewind(n) returns exactly one Conflict for each path of
\* the undo set whose current content differs from the content_after of the
\* most recent checkpoint that touched it, expected_content being that
\* content_after, and no Conflict for any other path.  (Stated between the
\* turns of a session of completed turns whose files read_file_safe can read.)
C3_OneConflictPerChangedPath ==
    (/\ pristine /\ ~turn_in_progress
     /\ \A k \in 1..Len(snap) : \A x \in Paths : snap[k][x] # Big) =>
    \A n \in 0..current_turn :
        LET conflicts == validate_before_rewind(n)
            of(x) == {i \in 1..Len(conflicts) : conflicts[i].path = x}
        IN  \A x \in Paths :
                IF x \in UndoSet(n) /\ read_file_safe(x) # LastAfter(x)
                THEN /\ Cardinality(of(x)) = 1
                     /\ \A i \in of(x) : conflicts[i].expected_content = LastAfter(x)
                ELSE of(x) = {}

\* C4: when validate_before_rewind(n) reports a conflict and force is false,
\* rewind_to_turn(n) returns (false, [], conflicts) and changes nothing: no
\* file, not current_turn, not the checkpoints.
C4_RefusedRewindChangesNothing ==
    [][\A n \in TurnArgs :
         (/\ 0 <= n /\ n <= current_turn
          /\ validate_before_rewind(n) # <<>>
          /\ rewind_to_turn(n, FALSE)) =>
             /\ ret' = RewindRet(FALSE, {}, validate_before_rewind(n), {})
             /\ UNCHANGED <<disk, current_turn, checkpoints, originals>>]_vars

\* a rewind was refused because of a conflict
C4_Witness ==
    /\ ret.op = "rewind_to_turn"
    /\ ~ret.ok
    /\ ret.conflicts # <<>>

\* C5: in every reachable state current_turn is the largest turn_number among
\* the checkpoints, 0 when there are none.
C5_CurrentTurnIsLastCheckpoint ==
    current_turn = Max({checkpoints[i].turn_number : i \in 1..Len(checkpoints)})

\* a rewind that undid a later turn and left turn 1 the current one
C5_Witness ==
    /\ ret.op = "rewind_to_turn"
    /\ ret.ok
    /\ ret.restored # {}
    /\ current_turn = 1
    /\ Len(checkpoints) = 1

\* ------------------------------------------------------------------------
\* Statements about the Turn Driver
\* ------------------------------------------------------------------------
\* the position of the first assistant message after position i, or one past
\* the end of the Conversation
NextAssistant(i) ==
    LET later == {j \in (i + 1)..Len(messages) : messages[j].role = "assistant"}
    IN  IF later = {} THEN Len(messages) + 1
        ELSE CHOOSE j \in later : \A k \in later : j <= k

\* the tool_call_ids of the tool messages between message i and the next
\* assistant message, in order
ToolIdsAfter(i) ==
    LET seg == SubSeq(messages, i + 1, NextAssistant(i) - 1)
        tools == SelectSeq(seg, LAMBDA m : m.role = "tool")
    IN  [k \in 1..Len(tools) |-> tools[k].tool_call_id]

Answered(i) == ToolIdsAfter(i) = messages[i].tool_calls

\* C6: whenever chat_turn has handed control back, by returning or by
\* raising, every assistant message with tool calls is followed, before any
\* later assistant message, by exactly one tool message per call, with the
\* call's id, in the order of the calls.
C6_ToolCallsAnswered ==
    chat_pc \in {"returned", "raised"} =>
        \A i \in 1..Len(messages) :
            (messages[i].role = "assistant" /\ messages[i].tool_calls # <<>>)
                => Answered(i)

\* The part of C6 the code meets: a dispatch loop that runs to its end leaves
\* the assistant message it served, the last one of the Conversation,
\* answered.
C6_CompletedDispatchAnswered ==
    [][(chat_pc = "tools" /\ chat_pc' = "completion") =>
          \E i \in 1..Len(messages') :
              /\ messages'[i].role = "assistant"
              /\ NextAssistant(i)' = Len(messages') + 1
              /\ Answered(i)']_vars

\* ------------------------------------------------------------------------
\* Statements about the MCP client
\* ------------------------------------------------------------------------
ErrorOutcomes == {"timeout", "transport_error"}

\* what holds of a request the client has written to the transport
RequestSettled(id) ==
    LET log == cl_log[id]
    IN  /\ Len(log.resolved) <= 1
        /\ Len(log.outcome) <= 1
        /\ \A k \in 1..Len(log.resolved) :
               log.resolved[k].id = id /\ <<log.resolved[k]>> = log.first
        /\ \A k \in 1..Len(log.outcome) :
               IF log.outcome[k].kind = "reply"
               THEN log.resolved = <<log.outcome[k].message>>
               ELSE log.outcome[k].kind \in ErrorOutcomes /\ log.resolved = <<>>
        /\ log.outcome = <<>> =>
               /\ id \in DOMAIN cl_pending
               /\ \E c \in Callers : Waiting(c) /\ cl_task[c].req = id

\* C7: every request the client has sent gets one outcome and no more: it is
\* resolved once, with the first message received with its id while it was
\* outstanding, or it fails with an error (until then a caller waits for it
\* under the timeout); it is never resolved twice nor with a message of
\* another id, and a received message whose id matches no outstanding request
\* changes nothing.
C7_OneOutcomePerRequest ==
    [][/\ \A id \in RequestIds : cl_log'[id].sent => RequestSettled(id)'
       /\ \A message \in Replies :
              (message.id \notin DOMAIN cl_pending /\ receive_message(message))
                  => UNCHANGED clientVars]_vars

\* one request was resolved by its reply, another failed with an error
C7_Witness ==
    \E id, other \in RequestIds :
        /\ cl_log[id].sent /\ cl_log[other].sent
        /\ cl_log[id].outcome # <<>> /\ cl_log[id].outcome[1].kind = "reply"
        /\ cl_log[other].outcome # <<>>
        /\ cl_log[other].outcome[1].kind \in ErrorOutcomes

\* the incoming stream stops: it ends, it fails, or the client is closed
StreamStops ==
    \/ \E cause \in {"eof", "error"} : stream_ends(cause)
    \/ receive_raises
    \/ close

\* the requests that were sent and whose future is not done
Outstanding ==
    {id \in DOMAIN cl_pending : cl_log[id].sent /\ cl_pending[id].state = "pending"}

\* C8: when the incoming stream ends or fails (end of file, child exit, read
\* or decode error, client close), every outstanding request is failed with
\* the error in that step; none is left pending.
C8_StreamEndFailsOutstanding ==
    [][StreamStops =>
          \A id \in Outstanding : cl_pending'[id].state = "exception"]_vars

\* The part of C8 the code meets: an exception that reaches _receive_loop's
\* handler fails every outstanding request.
C8_LoopExceptionFailsOutstanding ==
    [][receive_raises =>
          \A id \in Outstanding : cl_pending'[id].state = "exception"]_vars

\* the client has received a successful reply to an initialize request
InitializeAcknowledged ==
    \E id \in RequestIds :
        /\ cl_log[id].method = "initialize"
        /\ cl_log[id].resolved # <<>>
        /\ cl_log[id].resolved[1].kind = "result"

ToolMethods == {"tools/list", "tools/call"}

\* a step in which caller c's initialize request fails: it cannot be sent, it
\* times out, the receive loop fails it, or the reply is an error
InitializeFails(c) ==
    \/ ~cl_initialized /\ \E api \in Apis : call(c, api, FALSE)
    \/ cl_task[c].pc = "init_wait" /\ timeout(c)
    \/ /\ cl_task[c].pc = "init_wait"
       /\ cl_pending[cl_task[c].req].state = "exception"
       /\ resume(c, TRUE)
    \/ /\ cl_task[c].pc = "init_wait"
       /\ cl_pending[cl_task[c].req].state = "result"
       /\ cl_pending[cl_task[c].req].value.kind = "error"
       /\ resume(c, TRUE)

\* C9: no tools/call and no tools/list is written to the transport before
\* the client has received a successful reply to an initialize request, and
\* the client is initialized only then; when a caller's initialize request
\* fails or times out, the caller raises, nothing is sent, and _initialized
\* stays as it was.
C9_NoToolCallBeforeInitialize ==
    [][/\ \A k \in (Len(cl_wire) + 1)..Len(cl_wire') :
              cl_wire'[k].method \in ToolMethods => InitializeAcknowledged
       /\ cl_initialized' => InitializeAcknowledged'
       /\ \A c \in Callers :
              InitializeFails(c) =>
                  /\ cl_wire' = cl_wire
                  /\ cl_initialized' = cl_initialized
                  /\ cl_task'[c] = TaskIdle("raised")]_vars

\* a tool request was written after one initialize request had failed and a
\* later one had succeeded
C9_Witness ==
    /\ \E k \in 1..Len(cl_wire) : cl_wire[k].method \in ToolMethods
    /\ \E id \in RequestIds :
           /\ cl_log[id].method = "initialize"
           /\ cl_log[id].outcome # <<>>
           /\ cl_log[id].outcome[1].kind \in ErrorOutcomes

\* ------------------------------------------------------------------------
\* Statements about the MCP server
\* ------------------------------------------------------------------------
\* an initialize request has been handled
InitializeHandled ==
    \E k \in 1..Len(sv_sent) :
        sv_sent[k].method = "initialize" /\ sv_sent[k].kind = "result"

\* C10: a tools/list or tools/call request is answered with an error
\* response as long as no initialize request has been handled; once one has
\* been handled, tools/list and every tools/call with well-formed params are
\* answered with a result; the initialized flag never goes back to false.
C10_ToolsRefusedUntilInitialize ==
    [][/\ sv_initialized => sv_initialized'
       /\ \A request \in Requests :
              (/\ request.has_id /\ request.envelope
               /\ request.method \in ToolMethods
               /\ server_receive(request)) =>
                  LET response == sv_sent'[Len(sv_sent')]
                  IN  /\ response.id = request.id
                      /\ ~InitializeHandled => response.kind = "error"
                      /\ (InitializeHandled /\ request.params = "valid")
                             => response.kind = "result"]_vars

\* a tools request was refused before initialize and one answered after it
C10_Witness ==
    \E i, j, k \in 1..Len(sv_sent) :
        /\ i < j /\ j < k
        /\ sv_sent[i].method \in ToolMethods /\ sv_sent[i].kind = "error"
        /\ sv_sent[j].method = "initialize" /\ sv_sent[j].kind = "result"
        /\ sv_sent[k].method \in ToolMethods /\ sv_sent[k].kind = "result"

\* ------------------------------------------------------------------------
\* Statements about the Tool Registry and the sub-agent's dispatch
\* ------------------------------------------------------------------------
DispatchInputs ==
    [name : ToolNames, arguments : Arguments, behaviour : Behaviours,
     pre_hook : {"none", "allow", "deny"}, post_hook : {"none", "context"}]

AgentDispatch(i) ==
    agent_dispatch(i.name, i.arguments, i.behaviour, i.pre_hook, i.post_hook)

\* C11 as stated: in a sub-agent run a tool call naming a tool outside the
\* agent's effective tools never reaches ToolRegistry.execute, and the tool
\* result recorded for it is "Error: Tool '{name}' is not available to this
\* agent".
C11_UnavailableToolResult ==
    [][\A i \in DispatchInputs :
          (i.name \notin Range(ag_effective) /\ AgentDispatch(i)) =>
              /\ tr_calls' = tr_calls
              /\ ag_results' = Append(ag_results,
                                      [name |-> i.name,
                                       result |-> NotAvailableText(i.name)])]_vars

\* C11, amended: such a call never reaches ToolRegistry.execute, and the tool
\* result recorded for it is the not-available text, unless a pre-tool hook
\* denies the call (the result is then "[Hook blocked]: {reason}") or
\* post-tool hooks add context (which is then appended to the text).
C11_UnavailableToolRefused ==
    [][\A i \in DispatchInputs :
          (i.name \notin Range(ag_effective) /\ AgentDispatch(i)) =>
              /\ tr_calls' = tr_calls
              /\ ag_results' =
                     Append(ag_results,
                            [name |-> i.name,
                             result |->
                                 IF i.pre_hook = "deny" THEN HookBlockedText("reason")
                                 ELSE IF i.post_hook = "context"
                                 THEN NotAvailableText(i.name) \o <<"\n\n", "context">>
                                 ELSE NotAvailableText(i.name)])]_vars

\* a registered tool outside the agent's tools was called and refused
C11_Witness ==
    \E k \in 1..Len(ag_results) :
        /\ ag_results[k].result = NotAvailableText(ag_results[k].name)
        /\ ag_results[k].name \in Range(tr_tools)
        /\ ag_effective # <<None>>
        /\ ag_results[k].name \notin Range(ag_effective)

RegistryInputs == [name : ToolNames, arguments : Arguments, behaviour : Behaviours]

RegistryExecute(i) == execute(i.name, i.arguments, i.behaviour)

\* C12: ToolRegistry.execute on a name that is not registered returns
\* "Error: Unknown tool '{name}'", enters no tool's execute, and leaves the
\* registry as it was.
C12_UnknownToolReturnsError ==
    [][\A i \in RegistryInputs :
          (i.name \notin Range(tr_tools) /\ RegistryExecute(i)) =>
              /\ tr_calls' = Append(tr_calls,
                                    [name |-> i.name, entered |-> FALSE,
                                     raised |-> FALSE,
                                     value |-> UnknownToolText(i.name)])
              /\ tr_tools' = tr_tools]_vars

\* an unknown name was executed on a registry that holds another tool
C12_Witness ==
    /\ tr_tools # <<>>
    /\ \E k \in 1..Len(tr_calls) :
           /\ tr_calls[k].name \notin Range(tr_tools)
           /\ tr_calls[k].value = UnknownToolText(tr_calls[k].name)

\* C13: ToolRegistry.execute does not raise to its caller what a registered
\* tool's execute raises as a failure (an Exception, a failure to bind the
\* arguments included): it returns "Error executing {name}: {reason}".
C13_ExecutorFailureReturned ==
    [][\A i \in RegistryInputs :
          (/\ i.name \in Range(tr_tools)
           /\ i.behaviour # "interrupted"
           /\ RegistryExecute(i)) =>
              LET made == tr_calls'[Len(tr_calls')]
                  reason == IF i.arguments = "unbindable" THEN "unbindable"
                            ELSE i.behaviour
              IN  /\ ~made.raised
                  /\ reason # "returns" =>
                         made.value = ErrorExecutingText(i.name, reason)
                  /\ reason = "returns" => made.value = <<"output">>]_vars

\* a tool that raised and a call that could not be bound were both returned
\* as texts
C13_Witness ==
    \E j, k \in 1..Len(tr_calls) :
        /\ tr_calls[j].value = ErrorExecutingText(tr_calls[j].name, "raises")
        /\ tr_calls[j].entered
        /\ tr_calls[k].value = ErrorExecutingText(tr_calls[k].name, "unbindable")
        /\ ~tr_calls[k].entered

\* ------------------------------------------------------------------------
\* Statements about the completion request's retries
\* ------------------------------------------------------------------------
\* the delays slept so far are 1.0s * 2^attempt for attempt = 0, 1, ...
BackoffDelays ==
    \A k \in 1..Len(slept) : slept[k] = RETRY_DELAY * Pow(RETRY_BACKOFF, k - 1)

\* what every pass of the retry loop does on a success and on a failure that
\* is not retried
SuccessAndOtherFailures ==
    /\ completion("ok") => chat_pc' = "streaming" /\ slept' = slept
    /\ completion("other") => chat_pc' = "raised" /\ slept' = slept

\* C14: when every attempt of a completion request fails with a rate-limit,
\* service-unavailable or connection error the request is retried up to 3
\* times, each retry after a wait of 1.0s * 2^attempt, and ApiFailure is
\* raised only after the third retry has failed; a success stops the retries
\* and any other failure is not retried.
C14_ApiFailureAfterThirdRetry ==
    [][/\ (completion("retryable") /\ chat_pc' = "raised") =>
              Len(slept) = 3 /\ BackoffDelays
       /\ (completion("retryable") /\ chat_pc' # "raised") =>
              Len(slept') <= 3 /\ BackoffDelays'
       /\ SuccessAndOtherFailures]_vars

\* what the code does instead: MAX_RETRIES counts the attempts, so the failure
\* is raised when the second retry has failed, after waits of 1s and 2s
C14_ApiFailureAfterLastAttempt ==
    [][/\ (completion("retryable") /\ chat_pc' = "raised") =>
              Len(slept) = MAX_RETRIES - 1 /\ slept = <<1, 2>>
       /\ (completion("retryable") /\ chat_pc' # "raised") =>
              Len(slept') <= MAX_RETRIES - 1 /\ BackoffDelays'
       /\ SuccessAndOtherFailures]_vars

\* ------------------------------------------------------------------------
\* Statements about the Snapshot Storage
\* ------------------------------------------------------------------------
\* C15: save_turn followed by load_turn of the checkpoint's turn number yields
\* an equal checkpoint (turn number, message index, summary, timestamp, and
\* every change's path, kind, content_before and content_after), also when a
\* content_before differs from the path's saved original.
C15_SavedTurnLoadsEqual ==
    [][end_turn_returns =>
           load_turn(Saving.turn_number)' = <<Saving>>]_vars

\* what does come back equal: everything the manifest holds, and each
\* content_after that is not None, when the turn's directory is new
C15_ManifestLoadsEqual ==
    [][end_turn_returns =>
           LET saved == Saving
               loaded == load_turn(saved.turn_number)'
           IN  /\ loaded # <<>>
               /\ loaded[1].turn_number = saved.turn_number
               /\ loaded[1].message_index = saved.message_index
               /\ loaded[1].summary = saved.summary
               /\ loaded[1].timestamp = saved.timestamp
               /\ Len(loaded[1].file_changes) = Len(saved.file_changes)
               /\ \A i \in 1..Len(saved.file_changes) :
                      /\ loaded[1].file_changes[i].path = saved.file_changes[i].path
                      /\ loaded[1].file_changes[i].change_type =
                             saved.file_changes[i].change_type
                      /\ saved.file_changes[i].content_after # None =>
                             loaded[1].file_changes[i].content_after =
                                 saved.file_changes[i].content_after]_vars

\* C16: the rewind state is persisted after every turn: when end_turn has
\* returned, RewindManager.load returns a state whose current_turn and
\* checkpoint turn numbers are those held in memory.
C16_PersistedAfterEveryTurn ==
    [][end_turn_returns =>
           Shown' = <<[current_turn |-> sm_current_turn',
                       turns |-> TurnNumbersOf(sm_checkpoints')]>>]_vars

\* C17: when the process stops after begin_turn and before end_turn has
\* returned, a manager loaded for the session afterwards shows no checkpoint
\* for that turn, and the current_turn it showed when the turn began.
C17_UnfinishedTurnNotShown ==
    st_lost > 0 =>
        /\ Shown = st_shown
        /\ Shown # <<>> =>
               \A i \in 1..Len(Shown[1].turns) : Shown[1].turns[i] # st_lost
        /\ sm_alive =>
               /\ sm_current_turn = st_shown[1].current_turn
               /\ \A i \in 1..Len(sm_checkpoints) :
                      sm_checkpoints[i].turn_number # st_lost

\* the process stopped while save_turn had written the turn's snapshot and not
\* its manifest, and a manager was loaded afterwards
C17_Witness ==
    /\ st_lost > 0
    /\ sm_alive
    /\ fs_manifest[st_lost] = <<>>
    /\ \E x \in Paths : fs_snapshots[st_lost][x] # Absent

\* ------------------------------------------------------------------------
\* Statements about the originals and the conversation-only rewind
\* ------------------------------------------------------------------------
\* C18: an entry of RewindState.originals never changes once it is there: no
\* capture_before, capture_after, end_turn, rewind_to_turn or
\* rewind_conversation_only changes or removes it, and it is made by a
\* capture_before, from the content that capture_before read.
C18_OriginalsWrittenOnce ==
    [][/\ \A x \in DOMAIN originals :
              x \in DOMAIN originals' /\ originals'[x] = originals[x]
       /\ \A x \in (DOMAIN originals') \ (DOMAIN originals) :
              /\ \E arg \in PathArgs : Resolve(arg) = x /\ capture_before(arg)
              /\ originals'[x] = read_file_safe(x)]_vars

\* a later turn's capture_before read another content for the path than its
\* original, which stayed
C18_Witness ==
    /\ current_turn >= 1
    /\ \E i \in 1..Len(current_turn_changes) :
           LET change == current_turn_changes[i]
           IN  /\ change.path \in DOMAIN originals
               /\ change.content_before # originals[change.path]
               /\ change.content_before = read_file_safe(change.path)

\* C19: rewind_conversation_only(n) with 0 <= n <= current_turn removes the
\* checkpoints with turn_number > n and sets current_turn to n, and no file
\* is created, written or deleted; with n out of range it returns false and
\* changes nothing.
C19_ConversationOnlyRewind ==
    [][\A n \in TurnArgs :
          rewind_conversation_only(n) =>
              IF 0 <= n /\ n <= current_turn
              THEN /\ checkpoints' =
                          SelectSeq(checkpoints, LAMBDA cp : cp.turn_number <= n)
                   /\ current_turn' = n
                   /\ disk' = disk
                   /\ originals' = originals
                   /\ ret'.ok
              ELSE /\ ~ret'.ok
                   /\ UNCHANGED <<disk, turn_in_progress, current_turn_changes,
                                  current_turn, checkpoints, originals>>]_vars

\* a conversation-only rewind to turn 0 has returned true after a turn that
\* changed a file had ended: no checkpoint is left and the file is not as it
\* was originally
C19_Witness ==
    /\ ret.op = "rewind_conversation_only"
    /\ ret.ok
    /\ current_turn = 0
    /\ checkpoints = <<>>
    /\ ~turn_in_progress
    /\ \E x \in Paths : x \in DOMAIN originals /\ read_file_safe(x) # originals[x]

\* ------------------------------------------------------------------------
\* Statements about the Turn Driver and the Rewind Manager together
\* ------------------------------------------------------------------------
\* C20: every turn the Turn Driver runs with a Rewind Manager installed adds
\* a checkpoint: when chat_turn has returned, the manager's last checkpoint is
\* the one of this turn, made by an end_turn whose message_index is the
\* length of the conversation, and no turn is left in progress.
C20_TurnAddsCheckpoint ==
    chat_pc = "returned" =>
        /\ current_turn >= 1
        /\ Len(checkpoints) >= 1
        /\ checkpoints[Len(checkpoints)].message_index = Len(messages)
        /\ ~turn_in_progress

\* ------------------------------------------------------------------------
\* Statements about an interrupt while a response streams
\* ------------------------------------------------------------------------
\* C21: when the operator interrupts while an LLM response of the turn is
\* streaming (the first one, or a later one after tools have run), the
\* Conversation holds what it held before the turn plus the turn's user
\* message: the user message is its last message.
C21_InterruptLeavesUserMessageLast ==
    [][(chat_pc = "streaming" /\ interrupt) =>
           /\ chat_pc' = "raised"
           /\ messages'[Len(messages')].role = "user"]_vars

\* what the interrupt does leave: the Conversation as the interrupted request
\* found it, the partial response dropped
C21_InterruptDropsPartialResponse ==
    [][(chat_pc = "streaming" /\ interrupt) =>
           /\ chat_pc' = "raised"
           /\ messages' = messages]_vars

\* ------------------------------------------------------------------------
\* Statements about the /rewind command
\* ------------------------------------------------------------------------
\* the first message_index messages of the Conversation
FirstMessages(message_index) ==
    SubSeq(messages, 1, IF message_index < Len(messages) THEN message_index
                        ELSE Len(messages))

\* C22: after a successful /rewind to turn n, 0 <= n < current_turn, the
\* Conversation is truncated to the message index recorded at the end of turn
\* n; for n = 0 only the system message remains.
C22_RewindTruncatesConversation ==
    [][\A n \in TurnArgs, answer \in BOOLEAN :
          (/\ 0 <= n /\ n < current_turn
           /\ handle_rewind(n, answer)
           /\ current_turn' = n) =>
              messages' = IF n = 0 THEN <<messages[1]>>
                          ELSE FirstMessages(checkpoints[n].message_index)]_vars

\* what /rewind does: the truncation for every turn n >= 1
C22_RewindTruncatesToRecordedTurn ==
    [][\A n \in TurnArgs, answer \in BOOLEAN :
          (/\ 1 <= n /\ n < current_turn
           /\ handle_rewind(n, answer)
           /\ current_turn' = n) =>
              messages' = FirstMessages(checkpoints[n].message_index)]_vars

\* ------------------------------------------------------------------------
\* Statements about the transports' receive()
\* ------------------------------------------------------------------------
\* C23: a line that is not valid JSON is skipped: receive() yields nothing for
\* it and keeps receiving, so that the valid lines after it are delivered.
C23_BadLineSkipped ==
    [][(receive_line /\ Head(tp_lines) # <<>> /\ json_loads(Head(tp_lines)).raised) =>
           /\ tp_yielded' = tp_yielded
           /\ tp_receive' = "running"]_vars

\* what receive() does deliver: the messages of the lines before the first
\* one that is not JSON, in order, lines of white space passed over
RECURSIVE MessagesUntilBad(_)
MessagesUntilBad(lines) ==
    IF lines = <<>> THEN <<>>
    ELSE IF Head(lines) = <<>> THEN MessagesUntilBad(Tail(lines))
    ELSE IF json_loads(Head(lines)).raised THEN <<>>
    ELSE json_loads(Head(lines)).value \o MessagesUntilBad(Tail(lines))

C23_DeliversUntilBadLine == tp_yielded = MessagesUntilBad(tp_read)

\* ------------------------------------------------------------------------
\* Statements about the built-in tools
\* ------------------------------------------------------------------------
\* the places of a text where sub occurs
Occurrences(text, sub) ==
    Cardinality({i \in 1..(Len(text) - Len(sub) + 1) :
                    SubSeq(text, i, i + Len(sub) - 1) = sub})

EditedFile == bt_result.tool = "edit" /\ bt_result.before.kind = "file"
                  /\ bt_result.status # "Error reading file"

\* C24: edit changes the file only when old_string occurs exactly once, or
\* at least once with replace_all; when it occurs nowhere, or more than once
\* without replace_all, the result is an error and the file is as it was; the
\* count reported on success is the number of occurrences replaced.
C24_EditNeedsUniqueMatch ==
    EditedFile =>
        LET n == Occurrences(bt_result.before.content, bt_result.call.old_string)
            replace_all == bt_result.call.replace_all
        IN  /\ bt_file # bt_result.before => (n = 1 \/ (n >= 1 /\ replace_all))
            /\ (n = 0 \/ (n > 1 /\ ~replace_all)) =>
                   /\ bt_result.status \notin {"Replaced"}
                   /\ bt_file = bt_result.before
            /\ bt_result.status = "Replaced" =>
                   bt_result.count = IF replace_all THEN n ELSE 1

\* the same with the occurrences counted as str.count counts them, a match
\* that overlaps the match before it not counted
C24_EditNeedsUniqueCountedMatch ==
    EditedFile =>
        LET n == str_count(bt_result.before.content, bt_result.call.old_string)
            replace_all == bt_result.call.replace_all
        IN  /\ bt_file # bt_result.before => (n = 1 \/ (n >= 1 /\ replace_all))
            /\ (n = 0 \/ (n > 1 /\ ~replace_all)) =>
                   /\ bt_result.status \notin {"Replaced"}
                   /\ bt_file = bt_result.before
            /\ bt_result.status = "Replaced" =>
                   bt_result.count = IF replace_all THEN n ELSE 1

WrittenFile == bt_result.tool = "write"

\* C25: write replaces the content in one step: when a call has ended, with
\* a success or with a failure at any of its steps, the file holds the new
\* content or is as it was before the call, never empty or partly written.
C25_WriteIsAtomic ==
    WrittenFile =>
        \/ bt_file = bt_result.before
        \/ bt_file = File(bt_result.call.content)

\* a call of write that does not fail writes the new content, and one that
\* fails before the file is opened leaves the file as it was
C25_WriteSucceedsOrFails ==
    WrittenFile =>
        /\ bt_result.status \in {"Updated", "Created"} =>
               bt_file = File(bt_result.call.content)
        /\ bt_result.status = "Error creating directory" => bt_file = bt_result.before

\* the result holds the whole of "[Exit code: N]"
HasExitCode(text, returncode) ==
    \E i \in 1..Len(text) :
        /\ text[i].kind = <<"exit", returncode>>
        /\ text[i].len = text[i].of

Completed == bt_result.tool = "bash" /\ bt_result.call.outcome = "completed"

\* C26: the result of a command that ends with a return code N other than 0
\* holds "[Exit code: N]", and the result of one that ends with 0 does not;
\* so it is too when the output is longer than 50,000 characters and is cut.
C26_ExitCodeReported ==
    Completed =>
        (bt_result.call.returncode # 0
            <=> HasExitCode(bt_result.text, bt_result.call.returncode))

\* the same for the outputs that are not cut
C26_ExitCodeReportedUncut ==
    (Completed /\ \A i \in 1..Len(bt_result.text) :
                      bt_result.text[i].kind # <<"[Output truncated]", 0>>) =>
        (bt_result.call.returncode # 0
            <=> HasExitCode(bt_result.text, bt_result.call.returncode))

\* ------------------------------------------------------------------------
\* Statements about an agent's tools
\* ------------------------------------------------------------------------
\* C27: the effective tools of an agent are the names of all that are in its
\* allowed list when it has one, whatever its disallowed list; otherwise all
\* but the names of its disallowed list when it has one; otherwise all. No
\* name that is not in all is among them.
C27_EffectiveTools ==
    [][(ag_effective = <<None>> /\ ag_effective' # <<None>>) =>
       \A allowed \in ToolLists, disallowed \in ToolLists :
           run_agent(allowed, disallowed) =>
               LET all == Range(tr_tools)
                   effective == Range(ag_effective')
               IN  /\ effective = IF allowed # <<None>> THEN all \cap Range(allowed)
                                  ELSE IF disallowed # <<None>>
                                  THEN all \ Range(disallowed)
                                  ELSE all
                   /\ effective \subseteq all]_vars

\* an agent runs with some of the registered tools and not with all of them
C27_Witness ==
    /\ ag_effective # <<None>>
    /\ Range(ag_effective) # {}
    /\ Range(ag_effective) # Range(tr_tools)
    /\ Range(ag_effective) \subseteq Range(tr_tools)

\* ------------------------------------------------------------------------
\* Statements about what a checkpoint's changes record
\* ------------------------------------------------------------------------
\* what is on disk when a FileChange holds this content: None is no file
OnDisk(content) == IF content = None THEN Absent ELSE content

\* the changes of the checkpoint that end_turn adds hold, for each path that
\* can be read, what was there when the turn began and what is there now
TurnRecorded ==
    LET began == snap[Len(snap)]
        checkpoint == checkpoints'[Len(checkpoints')]
    IN  \A i \in 1..Len(checkpoint.file_changes) :
            LET change == checkpoint.file_changes[i]
            IN  (began[change.path] # Big /\ disk[change.path] # Big) =>
                    /\ OnDisk(change.content_before) = began[change.path]
                    /\ OnDisk(change.content_after) = disk[change.path]

\* C28: every FileChange of a checkpoint holds as content_before the content
\* of its path when the turn began and as content_after the content when the
\* turn ended, whatever the order of the capture calls in the turn: also when
\* a capture_before is not followed by a capture_after.
C28_ChangesRecordTurn ==
    [][(pristine /\ turn_in_progress /\ current_turn' = current_turn + 1) =>
           TurnRecorded]_vars

\* the same for the turns in which a capture_after has followed every
\* capture_before and every write
C28_CompletedChangesRecordTurn ==
    [][(pristine /\ turn_in_progress /\ unsynced = {}
            /\ current_turn' = current_turn + 1) =>
           TurnRecorded]_vars

\* ------------------------------------------------------------------------
\* Statements about the stored originals and the stored turns
\* ------------------------------------------------------------------------
\* C29: save_original does nothing for a path that has a saved original in
\* the session: load_original goes on returning what the first save stored,
\* whatever content a later call is given.
C29_SavedOriginalStays ==
    [][\A path \in Paths :
           fs_meta[path] # Absent => load_original(path)' = load_original(path)]_vars

\* a Rewind Manager saves a path's original when the path is not among the
\* originals it holds, and only then
C29_SavedWhenNotHeld ==
    [][\A path \in Paths :
           (path \in DOMAIN sm_originals /\ sm_alive') =>
               load_original(path)' = load_original(path)]_vars

\* C30: whatever turns were saved before, a turn number saved again after a
\* rewind has pruned it among them, load_turn of a saved turn returns for each
\* change the content_after last saved for the turn, and None for each change
\* saved as a deletion.
C30_LoadsLastContentAfter ==
    [][end_turn_returns =>
           LET saved == Saving
               loaded == load_turn(saved.turn_number)'
           IN  /\ loaded # <<>>
               /\ Len(loaded[1].file_changes) = Len(saved.file_changes)
               /\ \A i \in 1..Len(saved.file_changes) :
                      loaded[1].file_changes[i].content_after =
                          saved.file_changes[i].content_after]_vars

\* the same when the turn's directory holds no snapshot of an earlier save
\* for the paths now saved as deleted
C30_LoadsLastContentAfterNoStale ==
    [][(end_turn_returns
            /\ \A i \in 1..Len(Saving.file_changes) :
                   Saving.file_changes[i].content_after = None =>
                       fs_snapshots[Saving.turn_number][Saving.file_changes[i].path]
                           = Absent) =>
           LET saved == Saving
               loaded == load_turn(saved.turn_number)'
           IN  /\ loaded # <<>>
               /\ Len(loaded[1].file_changes) = Len(saved.file_changes)
               /\ \A i \in 1..Len(saved.file_changes) :
                      loaded[1].file_changes[i].content_after =
                          saved.file_changes[i].content_after]_vars

\* ------------------------------------------------------------------------
\* Statements about one LLM call
\* ------------------------------------------------------------------------
Calls == {i \in 1..Len(sr_trace) : sr_trace[i].ev = "call"}

\* the ToolCalls yielded, in order
Yielded == [k \in 1..Cardinality(Calls) |->
               sr_trace[CHOOSE i \in Calls : Cardinality({j \in Calls : j <= i}) = k].value]

\* C31: in one LLM call every text delta is yielded before the first
\* ToolCall; the ToolCalls are yielded after the whole stream has been read,
\* each with its argument text parsed (the empty object when the text cannot
\* be parsed, the call being yielded all the same); and the assistant message
\* is added to the Conversation before any ToolCall is yielded.
C31_DeltasThenMessageThenCalls ==
    /\ \A i \in Calls : \A j \in 1..Len(sr_trace) : j > i => j \in Calls
    /\ Calls # {} =>
           /\ sr_pc \in {"yielding", "returned"}
           /\ \E i \in 1..Len(sr_trace) : sr_trace[i].ev = "append"
    /\ sr_pc = "returned" => Len(Yielded) = Len(sr_data)
    /\ \A k \in 1..Len(Yielded) :
           /\ k <= Len(sr_data)
           /\ Yielded[k].id = sr_data[k].id
           /\ Yielded[k].name = sr_data[k].name
           /\ Yielded[k].arguments =
                  IF sr_data[k].arguments = <<"{", "k", "}">> THEN {"k"} ELSE {}

\* a call whose argument text cannot be parsed has been yielded, after a
\* text delta and the assistant message
C31_Witness ==
    /\ sr_pc = "returned"
    /\ \E i, j \in 1..Len(sr_trace) : sr_trace[i].ev = "delta" /\ sr_trace[j].ev = "append"
    /\ \E k \in 1..Len(Yielded) : arguments_loads(sr_data[k].arguments).raised

\* C39: a ProcessTransport spawns at most one child, and send and receive
\* work on that one process, also when the receive loop and the first send
\* start before the child exists.  Violated: both find _process None and
\* both spawn.
C39_OneChild ==
    /\ Len(pt_children) <= 1
    /\ \A i \in 1..Len(pt_written) : \A child \in pt_read : pt_written[i].child = child

\* C32: with several calls at once, the requests are written to the
\* transport in increasing order of their ids.  Violated while the child is
\* being spawned (C39).
C32_WrittenInIdOrder ==
    \A i, j \in 1..Len(pt_written) : i < j => pt_written[i].id < pt_written[j].id

\* C35: close returns only after the child has exited, and terminate and
\* kill never go to a child that has exited.  Violated with the two children
\* of C39.
C35_CloseLeavesNoChild ==
    /\ pt_close.pc = "returned" =>
           \A child \in 1..pt_close.had : pt_children[child] = "exited"
    /\ \A i \in 1..Len(pt_signals) : pt_signals[i].state = "running"

\* C35, the part that holds: close goes from the 5 second wait to terminate,
\* the 2 second wait, kill and the last wait in that order; it sends a signal
\* only when the child it waited for is still running; and the child it last
\* waited for has exited when it returns.
C35_CloseWaitsForItsChild ==
    /\ pt_close.pc = "returned" /\ pt_close.child # 0 =>
           pt_children[pt_close.child] = "exited"
    /\ Len(pt_signals) <= 2
    /\ \A i \in 1..Len(pt_signals) :
           pt_signals[i].signal = IF i = 1 THEN "terminate" ELSE "kill"
    /\ pt_close.pc \in {"none", "stdin", "wait5"} => pt_signals = <<>>
    /\ pt_close.pc = "wait2" => Len(pt_signals) = 1
    /\ pt_close.pc = "wait" => Len(pt_signals) = 2

\* C33: the entry of each request in the map of outstanding requests is
\* removed when the request completes, the failure to send included: once
\* every call has returned or raised, the map is empty.  Violated: a send
\* that raises leaves the entry.
C33_NothingOutstandingWhenIdle ==
    (\A c \in Callers : cl_task[c].pc = "idle") => DOMAIN cl_pending = {}

\* C33, the part that holds: the entry of a request that was written is
\* gone once its caller has the reply, the error or the timeout.
C33_WrittenRequestsAreRemoved ==
    \A id \in DOMAIN cl_pending :
        cl_log[id].sent => \E c \in Callers : Waiting(c) /\ cl_task[c].req = id

\* C40: with several calls on a client that is not initialized yet, at most
\* one initialize request is outstanding at a time.  Violated: every such
\* call runs initialize for itself.
C40_OneInitializeAtATime ==
    Cardinality({c \in Callers : cl_task[c].pc = "init_wait"}) <= 1

\* the ids of the messages that arrived with an id, in order
RequestIdsOf(arrived) == SelectSeq(arrived, LAMBDA m : m # <<>>)

\* the responses sent are those to the messages that arrived with an id,
\* one each, in the order of arrival
OneResponsePerRequest ==
    /\ Len(sv_sent) = Len(RequestIdsOf(sv_arrived))
    /\ \A k \in 1..Len(sv_sent) : <<sv_sent[k].id>> = RequestIdsOf(sv_arrived)[k]

\* a message without an id leaves the state of the server unchanged
NotificationChangesNothing ==
    [][Len(sv_arrived') > Len(sv_arrived) /\ sv_arrived'[Len(sv_arrived')] = <<>> =>
           UNCHANGED <<sv_initialized, sv_running, sv_sent>>]_vars

C36_NoConflictWithoutOutsideChange ==
    (/\ pristine /\ ~turn_in_progress
     /\ \A k \in 1..Len(snap) : \A x \in Paths : snap[k][x] # Big) =>
    \A n \in 0..current_turn :
        /\ validate_before_rewind(n) = <<>>
        /\ ~Refused(validate_before_rewind(n), FALSE)

\* C36, the part that holds: the same for the targets whose undone turns
\* changed no path twice.
C36_NoConflictWhenChangedOnce ==
    (/\ pristine /\ ~turn_in_progress
     /\ \A k \in 1..Len(snap) : \A x \in Paths : snap[k][x] # Big) =>
    \A n \in 0..current_turn :
        LET changes == get_files_modified_after_turn(n)
        IN  (\A i, j \in 1..Len(changes) : changes[i].path = changes[j].path => i = j)
                => validate_before_rewind(n) = <<>>

\* C38: rewind_to_turn deletes a file only if the file did not exist in the
\* state being restored, also when capture_before could not read it.
\* (Stated for sessions of completed turns with paired captures.)  Violated:
\* a file capture_before could not read is taken for one that did not exist.
C38_DeletesOnlyWhatDidNotExist ==
    [][\A n \in 0..MaxTurns : \A force \in BOOLEAN :
         (pristine /\ RewoundTo(n, force)) =>
             \A x \in Paths :
                 (disk[x] # Absent /\ disk'[x] = Absent) => snap[n + 1][x] = Absent]_vars

\* what rewind_to_turn(turn_number, force = true) writes and deletes with the
\* checkpoints cps: each path changed after the turn, with the content_before
\* of its first change after the turn (None: the path is deleted)
RestoreMapOf(cps, turn_number) ==
    LET changes == Concat([i \in 1..Len(cps) |->
                             IF cps[i].turn_number > turn_number
                             THEN cps[i].file_changes ELSE <<>>])
        paths == {changes[i].path : i \in 1..Len(changes)}
    IN  [x \in paths |-> changes[IndexOf(changes, x)].content_before]

\* rewind.json holds the current_turn and the checkpoint turns of the manager
Persisted ==
    /\ fs_rewind # <<>>
    /\ fs_rewind[1].current_turn = sm_current_turn
    /\ fs_rewind[1].checkpoint_turns = TurnNumbersOf(sm_checkpoints)

\* C37: a manager reloaded from the storage behaves like the one in memory:
\* for every n, rewind_to_turn(n, force = true) writes and deletes the same
\* paths with the same contents.  (Stated between two calls, for a state that
\* was persisted.)  Violated: the reloaded changes carry the session's
\* original as content_before (C15).
C37_ReloadedRewindsAlike ==
    (Callable /\ ~sm_turn_in_progress /\ Persisted) =>
    \A n \in 0..sm_current_turn :
        /\ load_rewind_state # <<>>
        /\ RestoreMapOf(load_rewind_state[1].checkpoints, n)
               = RestoreMapOf(sm_checkpoints, n)

\* C37, the part that holds: the reloaded manager writes or deletes the same
\* paths as the one in memory.
C37_ReloadedTouchesSamePaths ==
    (Callable /\ ~sm_turn_in_progress /\ Persisted) =>
    \A n \in 0..sm_current_turn :
        /\ load_rewind_state # <<>>
        /\ DOMAIN RestoreMapOf(load_rewind_state[1].checkpoints, n)
               = DOMAIN RestoreMapOf(sm_checkpoints, n)

====
